---- MODULE Spec2Model ----
(***************************************************************************)
(* SubscriptionBot: the resumable feed walker.                             *)
(*                                                                         *)
(* One stream is walked by one process at a time.  Two walkers exist in    *)
(* the sources: XMLProcess.iter_entries (modules/base.py, instantiated by  *)
(* CommentProcess for the comments feed) and FeedProcess.iter_submissions  *)
(* (modules/feed.py, the submissions feed).  A run of the process goes     *)
(* start -> (baseline_fetch) -> fetch -> consume -> returned -> ... until  *)
(* a signal, a kill or an uncaught exception ends it; a later run of the   *)
(* same stream starts from what the kv_store table then holds.  The        *)
(* generators are driven by a consumer: the loop of CommentProcess.run,    *)
(* which installs the signal handlers first, or any caller of the methods. *)
(* FeedProcess.run ends at its first statement (FeedRun), before it has    *)
(* installed a handler, so the walk of FeedProcess is that of a caller of  *)
(* iter_submissions and a signal ends it like a kill.  A signal with a     *)
(* handler installed is handled between any two statements, those of a     *)
(* handler included.                                                       *)
(*                                                                         *)
(* Strings are sequences of one-character strings, so that prefixes can    *)
(* be matched and split.  None is the empty sequence (the empty string is  *)
(* not among the inputs).                                                  *)
(*                                                                         *)
(* Spec is the walk of one stream over its runs.  PollerSpec is the        *)
(* request loop of the same process with its clock, StreamsSpec two        *)
(* walkers on one database, CodecSpec the identifier functions applied to  *)
(* one input, CounterSpec the loop of CommentProcess.run, BucketSpec the   *)
(* bucket date of one comment, InboxSpec the methods of InboxProcess,      *)
(* DecodeSpec the walker with its pages decoded entry by entry.  Each of   *)
(* them keeps the variables of the others at rest.                         *)
(***************************************************************************)
EXTENDS Integers, Sequences, FiniteSets, TLC

VARIABLES
    process,        \* which walker class this stream runs
    pc,             \* position of the main thread: in the walk (Running),
                    \* in APIProcess._exit_handler before its commit
                    \* ("super_exit"), its close ("close") or its exit(0)
                    \* ("exit"), or ended ("exited", "crashed")
    after_arg,      \* --after of this run (None when omitted)
    reset_arg,      \* --reset-after of this run
    after_full_id,  \* self._after_full_id
    query,          \* params of the request in flight: [before, limit]
    delay,          \* local `delay` of XMLProcess._query_feed
    doc,            \* entries of the last decoded page, in document order
    result,         \* list being iterated by the walker's for loop
    idx,            \* index in result of the entry last yielded
    emitted,        \* ids yielded to the consumer in this run, in order
    ndone,          \* number of those whose callback has returned
    kv_store,       \* committed rows of table kv_store: key -> value
    db_tx,          \* what this connection has executed and not committed:
                    \* the upsert <<key, value>> of a walker, the message
                    \* <<item>> whose statement InboxProcess has executed
    db_open,        \* the connection is open
    published,      \* number of entries the source had at its last answer
    start_stored,   \* cursor row of the stream when this run started
    prev            \* how the previous run of the stream ended

\* The request loop seen at the grain of its waits (PollerSpec).
VARIABLES
    now,            \* the clock (datetime.utcnow()), in seconds
    last_timestamp, \* self._last_timestamp: None, or <<t>> for the instant t
    wait,           \* local `wait` of _query_feed: seconds left to wait
    wake,           \* the instant the sleep(wait) in progress is due to end
    fails,          \* responses of this _query_feed call that did not end it
    sig             \* None, or <<s>> for the signal received, with the
                    \* position and the instant it found

poller_vars == <<now, last_timestamp, wait, wake, fails, sig>>

\* Several streams on one database (StreamsSpec).
VARIABLES
    walkers         \* per walker: its stream, where its process is, its
                    \* cursor, the entry the consumer has, the row it found
                    \* at its start and the cursor it saved

stream_vars == <<walkers>>

\* The identifier codec applied to one input (CodecSpec).
VARIABLES
    codec_in,       \* the input: a walker class, a kind and a string
    codec_out       \* what was applied to it and what came out

codec_vars == <<codec_in, codec_out>>

\* The comment counter (CounterSpec).
VARIABLES
    blacklist_cfg,  \* bot_comments_blacklist of praw.ini, split at commas
    feed,           \* the entry dicts iter_entries yields, in order
    handled,        \* number of entries the loop of run has been entered for
    comment,        \* table comment: (submission, user, date) -> count
    run_state       \* "running", or "raised" once run has ended

counter_vars == <<blacklist_cfg, feed, handled, comment, run_state>>

\* The bucket date of one comment (BucketSpec).
VARIABLES
    bucket_in,      \* the input: bot_comments_cutoff_time and the entry's
                    \* `updated`
    bucket_out      \* how far the process got, and the date it returned

bucket_vars == <<bucket_in, bucket_out>>

\* The inbox process (InboxSpec).
VARIABLES
    inbox_pc,       \* where InboxProcess is: in none of its methods
                    \* ("rest"), in the statements of the loop of run at
                    \* "process" or "add_seen", in process_message before
                    \* its commit ("commit"), in _flush_seen at "mark_read"
                    \* or "clear", in the base handler before its commit
                    \* ("super_exit"), its close ("close") or its exit(0)
                    \* ("exit"), or ended ("crashed", "exited")
    handlers,       \* the signals a handler is installed for, in the
                    \* inbox process or in the process of the walker
    signals,        \* number of signals whose handler has been entered
    item,           \* the item the loop of run holds
    delivered,      \* number of items reddit.inbox.stream() has yielded
    seen_items,     \* self._seen_items, as the numbers of the items
    marked,         \* per item, how often mark_read has been called on it
    subscription,   \* table subscription: the (submission_id, user_name) rows
    last_request    \* per pair, the command of the last message whose
                    \* statement process_message has executed

inbox_vars == <<inbox_pc, handlers, signals, item, delivered, seen_items,
                marked, subscription, last_request>>

not_poller == <<stream_vars, codec_vars, counter_vars, bucket_vars, inbox_vars>>

not_streams == <<poller_vars, codec_vars, counter_vars, bucket_vars, inbox_vars>>

not_codec == <<poller_vars, stream_vars, counter_vars, bucket_vars, inbox_vars>>

not_counter == <<poller_vars, stream_vars, codec_vars, bucket_vars, inbox_vars>>

not_bucket == <<poller_vars, stream_vars, codec_vars, counter_vars, inbox_vars>>

not_inbox == <<poller_vars, stream_vars, codec_vars, counter_vars, bucket_vars>>

\* what the walker leaves alone: everything of the others but the table of
\* signal handlers, which the walker's process has too
aux == <<poller_vars, stream_vars, codec_vars, counter_vars, bucket_vars,
         inbox_pc, signals, item, delivered, seen_items, marked,
         subscription, last_request>>

vars == <<process, pc, after_arg, reset_arg, after_full_id, query, delay,
          doc, result, idx, emitted, ndone, kv_store, db_tx,
          db_open, published, start_stored, prev, handlers, aux>>

(***************************************************************************)
(* Bounds of the model.                                                    *)
(***************************************************************************)
MaxEntries == 6

None == <<>>

(***************************************************************************)
(* Identifiers.                                                            *)
(***************************************************************************)
Base36Digits ==
    <<"0", "1", "2", "3", "4", "5", "6", "7", "8", "9", "a", "b", "c", "d",
      "e", "f", "g", "h", "i", "j", "k", "l", "m", "n", "o", "p", "q", "r",
      "s", "t", "u", "v", "w", "x", "y", "z">>

IsBase36Char(c) == \E k \in 1..Len(Base36Digits) : Base36Digits[k] = c

\* re.fullmatch(base36_pattern, s) with base36_pattern = '[0-9a-z]+'
base36_pattern(s) == Len(s) >= 1 /\ \A k \in 1..Len(s) : IsBase36Char(s[k])

\* re.fullmatch(kind + '_' + base36_pattern, s)
FullIdMatch(kind, s) ==
    /\ Len(s) > Len(kind) + 1
    /\ SubSeq(s, 1, Len(kind)) = kind
    /\ s[Len(kind) + 1] = "_"
    /\ base36_pattern(SubSeq(s, Len(kind) + 2, Len(s)))

\* f'{prefix}_{short_id}'
to_full_id(prefix, short_id) == prefix \o <<"_">> \o short_id

\* decimal n as a base36 numeral, the way the source numbers its items
RECURSIVE Base36(_)
Base36(n) ==
    IF n < 36 THEN <<Base36Digits[n + 1]>>
    ELSE Base36(n \div 36) \o <<Base36Digits[(n % 36) + 1]>>

\* reddit.config.kinds: the prefix of each kind of thing
KindNames ==
    {"comment", "message", "redditor", "submission", "subreddit", "trophy"}

kinds(kind) ==
    CASE kind = "comment" -> <<"t", "1">>
      [] kind = "redditor" -> <<"t", "2">>
      [] kind = "submission" -> <<"t", "3">>
      [] kind = "message" -> <<"t", "4">>
      [] kind = "subreddit" -> <<"t", "5">>
      [] kind = "trophy" -> <<"t", "6">>

\* full_id.split('_')[0]: the part before the first underscore
to_short_id_First(full_id) ==
    IF \A k \in 1..Len(full_id) : full_id[k] # "_" THEN full_id
    ELSE SubSeq(full_id, 1,
                (CHOOSE k \in 1..Len(full_id) :
                    /\ full_id[k] = "_"
                    /\ \A j \in 1..(k - 1) : full_id[j] # "_") - 1)

\* full_id.split('_').pop(): the part after the last underscore
RECURSIVE to_short_id(_)
to_short_id(full_id) ==
    IF \A k \in 1..Len(full_id) : full_id[k] # "_" THEN full_id
    ELSE to_short_id(Tail(full_id))

\* kind_class.id_from_url(url) of the client library: the library accepts
\* the URL shapes it knows and raises for anything else.  Here a URL is "/"
\* followed by the short id; the result is None when the library raises.
id_from_url(url) ==
    IF Len(url) >= 2 /\ url[1] = "/" /\ base36_pattern(Tail(url))
    THEN Tail(url)
    ELSE None

(***************************************************************************)
(* The streams.                                                            *)
(***************************************************************************)
Processes == {"XMLProcess", "FeedProcess"}

\* reddit.config.kinds[...]: 't1' for comments, 't3' for submissions
Kind(p) == IF p = "XMLProcess" THEN <<"t", "1">> ELSE <<"t", "3">>

\* the key of the cursor row: f'{subreddit}_{path}_after_full_id' in
\* XMLProcess, the fixed 'after_full_id' in FeedProcess
DbKey(p) ==
    IF p = "XMLProcess" THEN <<"sub", "comments", "after_full_id">>
    ELSE <<"after_full_id">>

Keys == {DbKey(p) : p \in Processes}

(***************************************************************************)
(* The feed transport: a listing of the entries 1..published of the        *)
(* stream, newest first.  `before` selects the entries newer than the      *)
(* named one, the `limit` nearest to it; without `before` the newest       *)
(* `limit` entries are returned.  An id the source does not know selects   *)
(* nothing.                                                                *)
(***************************************************************************)
SourceId(p, i) == to_full_id(Kind(p), Base36(i))

Position(p, id, n) ==
    IF \E i \in 1..n : SourceId(p, i) = id
    THEN CHOOSE i \in 1..n : SourceId(p, i) = id
    ELSE 0

Min(a, b) == IF a <= b THEN a ELSE b
Max(a, b) == IF a >= b THEN a ELSE b

\* a request that names no limit (limit = 0 here) gets the source's own
\* page size of 25
EffectiveLimit(q) == IF q.limit = 0 THEN 25 ELSE q.limit

\* the atom:entry elements of the document, in document order
FeedPage(p, q, n) ==
    LET lim == EffectiveLimit(q)
        lo == IF q.before = None THEN Max(0, n - lim)
              ELSE Position(p, q.before, n)
        hi == IF q.before = None THEN n
              ELSE IF lo = 0 THEN 0 ELSE Min(lo + lim, n)
    IN  [k \in 1..(hi - lo) |-> [id |-> SourceId(p, hi - k + 1)]]

\* what the source may answer to a request: an HTML error page, a body that
\* is not well-formed XML, a feed without entries, or the page asked for
Responses(p, q, n) ==
    {[text |-> "html", entries |-> <<>>],
     [text |-> "malformed", entries |-> <<>>],
     [text |-> "atom", entries |-> <<>>]}
    \cup (IF FeedPage(p, q, n) # <<>>
          THEN {[text |-> "atom", entries |-> FeedPage(p, q, n)]}
          ELSE {})

(***************************************************************************)
(* Decoding a page.                                                        *)
(***************************************************************************)
\* the dict built from one atom:entry element
EntryDict(elem) == [id |-> elem.id]

\* list.reverse() / reversed(tuple(...))
Reverse(s) == [k \in 1..Len(s) |-> s[Len(s) - k + 1]]

\* _query_feed without its result.reverse(): document order is kept
QueryResult_NoReverse(entries) == [k \in 1..Len(entries) |-> EntryDict(entries[k])]

\* the `result` of XMLProcess._query_feed: the decoded entries, reversed
QueryResult(entries) == Reverse([k \in 1..Len(entries) |-> EntryDict(entries[k])])

\* reversed(tuple(self._parse_feed(response))) of FeedProcess
ParsedReversed(entries) == Reverse([k \in 1..Len(entries) |-> EntryDict(entries[k])])

(***************************************************************************)
(* The poller of XMLProcess.                                               *)
(***************************************************************************)
BaseDelay == 15
MaxDelay == 120
DefaultLimit == 100
LastEntryLimit == 1

NoQuery == [before |-> None, limit |-> 0]

\* _query_feed leaving its loop on any response that parses, with or
\* without entries
QueryFeedStep_AnyPage(r, d) ==
    IF r.text = "html"
    THEN [outcome |-> "retry", delay |-> Min(2 * d, MaxDelay), result |-> <<>>]
    ELSE IF r.text = "malformed"
    THEN [outcome |-> "raise", delay |-> d, result |-> <<>>]
    ELSE [outcome |-> "return", delay |-> d,
          result |-> Reverse([k \in 1..Len(r.entries) |-> [id |-> r.entries[k].id]])]

\* one turn of the `while True` loop of XMLProcess._query_feed on response
\* r with the local delay d: the loop goes round with a longer delay,
\* ET.fromstring raises, or the loop is left and the reversed list returned
QueryFeedStep(r, d) ==
    IF r.text = "html"
    THEN [outcome |-> "retry", delay |-> Min(2 * d, MaxDelay), result |-> <<>>]
    ELSE IF r.text = "malformed"
    THEN [outcome |-> "raise", delay |-> d, result |-> <<>>]
    ELSE IF Len(r.entries) > 0
    THEN [outcome |-> "return", delay |-> d, result |-> QueryResult(r.entries)]
    ELSE [outcome |-> "retry", delay |-> Min(2 * d, MaxDelay), result |-> <<>>]

\* FeedProcess: _query_feed returns the response as it is and _parse_feed
\* hands it to ET.fromstring, which raises unless it is well-formed XML
ParseFeedStep(r) ==
    IF r.text # "atom"
    THEN [outcome |-> "raise", result |-> <<>>]
    ELSE [outcome |-> "return", result |-> ParsedReversed(r.entries)]

\* entries[0] of the baseline: of the reversed list _query_feed returns in
\* XMLProcess.get_last_entry, of tuple(self._parse_feed(last)), which is in
\* document order, in FeedProcess.iter_submissions
BaselineEntry(p, r) ==
    IF p = "XMLProcess" THEN QueryResult(r.entries)[1]
    ELSE EntryDict(r.entries[1])

(***************************************************************************)
(* Resolving the starting cursor.                                          *)
(***************************************************************************)
\* iter_entries looking at the stored row before it looks at `after`
iter_entries_resolve_StoredFirst(kind, after, reset, stored) ==
    IF reset THEN [outcome |-> "baseline", id |-> None]
    ELSE IF stored # None THEN [outcome |-> "cursor", id |-> stored]
    ELSE IF after = None THEN [outcome |-> "baseline", id |-> None]
    ELSE IF FullIdMatch(kind, after) THEN [outcome |-> "cursor", id |-> after]
    ELSE IF base36_pattern(after)
    THEN [outcome |-> "cursor", id |-> kind \o <<"_">> \o after]
    ELSE IF id_from_url(after) = None THEN [outcome |-> "raise", id |-> None]
    ELSE [outcome |-> "cursor", id |-> kind \o <<"_">> \o id_from_url(after)]

\* the head of XMLProcess.iter_entries; stored is the row of the stream
iter_entries_resolve(kind, after, reset, stored) ==
    IF reset THEN [outcome |-> "baseline", id |-> None]
    ELSE IF after = None
    THEN IF stored # None THEN [outcome |-> "cursor", id |-> stored]
         ELSE [outcome |-> "baseline", id |-> None]
    ELSE IF FullIdMatch(kind, after) THEN [outcome |-> "cursor", id |-> after]
    ELSE IF base36_pattern(after)
    THEN [outcome |-> "cursor", id |-> kind \o <<"_">> \o after]
    ELSE IF id_from_url(after) = None THEN [outcome |-> "raise", id |-> None]
    ELSE [outcome |-> "cursor", id |-> kind \o <<"_">> \o id_from_url(after)]

\* the head of FeedProcess.iter_submissions.  The short-id branch calls
\* self._to_full_id(after) with one argument where the method takes two:
\* the call raises TypeError
iter_submissions_resolve(kind, after, stored) ==
    IF after = None
    THEN IF stored # None THEN [outcome |-> "cursor", id |-> stored]
         ELSE [outcome |-> "baseline", id |-> None]
    ELSE IF FullIdMatch(kind, after) THEN [outcome |-> "cursor", id |-> after]
    ELSE IF base36_pattern(after) THEN [outcome |-> "raise", id |-> None]
    ELSE IF id_from_url(after) = None THEN [outcome |-> "raise", id |-> None]
    ELSE [outcome |-> "cursor", id |-> to_full_id(kind, id_from_url(after))]

\* a resolution that falls back on the newest entry when the identifier is
\* of no accepted shape
Resolve_FallBack(p, after, reset, stored) ==
    LET r == IF p = "XMLProcess"
             THEN iter_entries_resolve(Kind(p), after, reset, stored)
             ELSE iter_submissions_resolve(Kind(p), after, stored)
    IN  IF r.outcome = "raise" THEN [outcome |-> "baseline", id |-> None]
        ELSE r

Resolve(p, after, reset, stored) ==
    IF p = "XMLProcess" THEN iter_entries_resolve(Kind(p), after, reset, stored)
    ELSE iter_submissions_resolve(Kind(p), after, stored)

\* the params of the walker's streaming request
StreamQuery(p, cursor) ==
    IF p = "XMLProcess" THEN [before |-> cursor, limit |-> DefaultLimit]
    ELSE [before |-> cursor, limit |-> 0]

\* get_last_entry asking for a full page: _query_feed hands the page back
\* oldest first, so entries[0] is no longer the newest entry
LastEntryQuery_FullPage == [before |-> None, limit |-> DefaultLimit]

\* the params of get_last_entry / get_last_submission
LastEntryQuery == [before |-> None, limit |-> LastEntryLimit]

(***************************************************************************)
(* The store.                                                              *)
(***************************************************************************)
\* INSERT ... ON CONFLICT DO UPDATE, not yet committed
Upsert(key, value) == <<key, value>>

\* db.commit()
Commit(store, tx) == IF tx = None THEN store ELSE [store EXCEPT ![tx[1]] = tx[2]]

(***************************************************************************)
(* Inputs.                                                                 *)
(***************************************************************************)
\* the other stream's prefix
OtherKind(p) == IF p = "XMLProcess" THEN Kind("FeedProcess") ELSE Kind("XMLProcess")

\* --after: omitted, a full id, a short id, a URL, a full id of the other
\* kind, and a string of no accepted shape
AfterInputs(p) ==
    {None,
     SourceId(p, 2),
     Base36(2),
     <<"/">> \o Base36(2),
     to_full_id(OtherKind(p), Base36(2)),
     <<"_">>}

\* the (after, reset) pairs a run may be started with; iter_submissions has
\* no reset parameter
Args(p) ==
    {<<a, FALSE>> : a \in AfterInputs(p)}
    \cup (IF p = "XMLProcess" THEN {<<None, TRUE>>, <<SourceId(p, 2), TRUE>>}
          ELSE {})

(***************************************************************************)
(* The state machine.                                                      *)
(***************************************************************************)
Running ==
    {"start", "baseline_fetch", "fetch", "decode", "consume", "returned"}
Stopped == {"exited", "crashed"}

\* inside APIProcess._exit_handler: before self.db.commit(), before
\* self.db.close(), before exit(0)
InBaseHandler == {"super_exit", "close", "exit"}

\* signal.signal(SIGINT, ...) and signal.signal(SIGTERM, ...)
setup_interrupt_handlers == {"SIGINT", "SIGTERM"}

\* a process that has ended has no handlers; any other step of the walk
\* leaves them as they are
HandlersKept == handlers' = IF pc' \in Stopped THEN {} ELSE handlers

\* what is remembered of a run when it ends: how it ended (by a signal
\* through its handler, by a kill, by an exception of the consumer or of
\* the process); of a run ended by a handled signal or by the consumer the
\* cursor it held in memory; of a killed run the page it was iterating and
\* how many callbacks of that page had returned, the cursor row it had
\* started with, and whether it was started without --after and
\* --reset-after
RunRecord(how) ==
    [end |-> how,
     after |-> IF how \in {"signal", "raise"} THEN after_full_id ELSE None,
     result |-> IF how = "kill" THEN result ELSE <<>>,
     pagedone |-> IF how = "kill" THEN idx - (Len(emitted) - ndone) ELSE 0,
     stored |-> IF how = "kill" THEN start_stored ELSE None,
     plain |-> how = "kill" => (after_arg = None /\ ~reset_arg)]

NoRun == [end |-> "none", after |-> None, result |-> <<>>, pagedone |-> 0,
          stored |-> None, plain |-> TRUE]

\* the request loop at rest: no request made yet (_last_timestamp is None),
\* no signal received
PollerIdle ==
    /\ now = 0
    /\ last_timestamp = None
    /\ wait = 0
    /\ wake = 0
    /\ fails = 0
    /\ sig = None

\* no second walker on the database
StreamsIdle == walkers = <<>>

\* nothing handed to the codec
NoOutput == [op |-> "none", outcome |-> "none", id |-> None, full |-> None,
             short |-> None]

CodecIdle ==
    /\ codec_in = [process |-> "XMLProcess", kind |-> "comment", s |-> None]
    /\ codec_out = NoOutput

\* no comment counter running
CounterIdle ==
    /\ blacklist_cfg = <<>>
    /\ feed = <<>>
    /\ handled = 0
    /\ comment = <<>>
    /\ run_state = "running"

\* no bucket date asked for
BucketIdle ==
    /\ bucket_in = [cutoff |-> None, updated |-> None]
    /\ bucket_out = [state |-> "none", date |-> 0]

\* the loop of InboxProcess.run holds no item
NoItem == [n |-> 0, kind |-> "none", subject |-> <<>>, author |-> <<>>,
           sent |-> <<>>]

\* no inbox process
InboxNone ==
    /\ inbox_pc = "none"
    /\ signals = 0
    /\ item = NoItem
    /\ delivered = 0
    /\ seen_items = <<>>
    /\ marked = <<>>
    /\ subscription = {}
    /\ last_request = <<>>

\* no inbox process, and no handler installed
InboxIdle == InboxNone /\ handlers = {}

OthersIdle ==
    StreamsIdle /\ CodecIdle /\ CounterIdle /\ BucketIdle /\ InboxIdle

\* the state of a process right after construction (XMLProcess.__init__,
\* FeedProcess.__init__): no cursor in memory, connection open
Init ==
    /\ PollerIdle
    /\ OthersIdle
    /\ process \in Processes
    /\ pc = "start"
    /\ \E a \in Args(process) : after_arg = a[1] /\ reset_arg = a[2]
    /\ after_full_id = None
    /\ query = NoQuery
    /\ delay = BaseDelay
    /\ doc = <<>>
    /\ result = <<>>
    /\ idx = 0
    /\ emitted = <<>>
    /\ ndone = 0
    /\ kv_store = [k \in Keys |-> None]
    /\ db_tx = None
    /\ db_open = TRUE
    /\ published = 0
    /\ start_stored = None
    /\ prev = NoRun

\* an uncaught exception or a kill ends the process: the connection is
\* dropped with whatever it had not committed
Die(how) ==
    /\ pc' = "crashed"
    /\ db_tx' = None
    /\ db_open' = FALSE
    /\ prev' = RunRecord(how)

\* the first next() on the generator: iter_entries / iter_submissions up to
\* its first request.  iter_entries is called by the loop of
\* CommentProcess.run, after the handlers have been installed
IterEntries ==
    /\ pc = "start"
    /\ process = "XMLProcess" => handlers # {}
    /\ LET r == Resolve(process, after_arg, reset_arg, kv_store[DbKey(process)])
       IN  IF r.outcome = "raise"
           THEN /\ Die("error")
                /\ UNCHANGED <<after_full_id, query, delay>>
           ELSE IF r.outcome = "baseline"
           THEN /\ pc' = "baseline_fetch"
                /\ query' = LastEntryQuery
                /\ delay' = BaseDelay
                /\ UNCHANGED <<after_full_id, db_tx, db_open, prev>>
           ELSE /\ pc' = "fetch"
                /\ after_full_id' = r.id
                /\ query' = StreamQuery(process, r.id)
                /\ delay' = BaseDelay
                /\ UNCHANGED <<db_tx, db_open, prev>>
    /\ UNCHANGED <<process, after_arg, reset_arg, doc, result, idx,
                   emitted, ndone, kv_store, published,
                   start_stored>>
    /\ HandlersKept
    /\ UNCHANGED aux

\* get_last_entry: a response to the limit=1 request of XMLProcess.  The
\* source has n >= published entries by the time it answers.  entries[0]
\* of a list without entries would be an IndexError
GetLastEntry ==
    /\ pc = "baseline_fetch"
    /\ process = "XMLProcess"
    /\ \E n \in published..MaxEntries :
       /\ published' = n
       /\ \E r \in Responses(process, query, n) :
           LET step == QueryFeedStep(r, delay)
           IN  IF step.outcome = "raise"
               THEN /\ Die("error")
                    /\ UNCHANGED <<after_full_id, query, delay>>
               ELSE IF step.outcome = "retry"
               THEN /\ delay' = step.delay
                    /\ UNCHANGED <<pc, after_full_id, query, db_tx,
                                   db_open, prev>>
               ELSE IF Len(step.result) = 0
               THEN /\ Die("index")
                    /\ UNCHANGED <<after_full_id, query, delay>>
               ELSE /\ after_full_id' = step.result[1].id
                    /\ pc' = "fetch"
                    /\ query' = StreamQuery(process, step.result[1].id)
                    /\ delay' = BaseDelay
                    /\ UNCHANGED <<db_tx, db_open, prev>>
    /\ UNCHANGED <<process, after_arg, reset_arg, doc, result, idx,
                   emitted, ndone, kv_store, start_stored>>
    /\ HandlersKept
    /\ UNCHANGED aux

\* get_last_submission and entries[0] of FeedProcess: a response that does
\* not parse raises, and so does entries[0] of a feed without entries
GetLastSubmission ==
    /\ pc = "baseline_fetch"
    /\ process = "FeedProcess"
    /\ \E n \in published..MaxEntries :
       /\ published' = n
       /\ \E r \in Responses(process, query, n) :
           IF r.text # "atom" \/ Len(r.entries) = 0
           THEN /\ Die("error")
                /\ UNCHANGED <<after_full_id, query>>
           ELSE /\ after_full_id' = EntryDict(r.entries[1]).id
                /\ pc' = "fetch"
                /\ query' = StreamQuery(process, EntryDict(r.entries[1]).id)
                /\ UNCHANGED <<db_tx, db_open, prev>>
    /\ UNCHANGED <<process, after_arg, reset_arg, delay, doc, result,
                   idx, emitted, ndone, kv_store, start_stored>>
    /\ HandlersKept
    /\ UNCHANGED aux

\* a page has been returned to the walker's for loop, which yields its
\* first entry
YieldFirst(entries, res) ==
    /\ doc' = entries
    /\ result' = res
    /\ idx' = 1
    /\ emitted' = Append(emitted, res[1].id)
    /\ pc' = "consume"

\* a response to the streaming request of XMLProcess.iter_entries; the for
\* loop over a list without entries would go straight to the next request
QueryFeed ==
    /\ pc = "fetch"
    /\ process = "XMLProcess"
    /\ \E n \in published..MaxEntries :
       /\ published' = n
       /\ \E r \in Responses(process, query, n) :
           LET step == QueryFeedStep(r, delay)
           IN  IF step.outcome = "raise"
               THEN /\ Die("error")
                    /\ UNCHANGED <<delay, doc, result, idx, emitted>>
               ELSE IF step.outcome = "retry"
               THEN /\ delay' = step.delay
                    /\ UNCHANGED <<pc, doc, result, idx, emitted, db_tx, db_open,
                                   prev>>
               ELSE IF Len(step.result) = 0
               THEN /\ doc' = r.entries
                    /\ result' = step.result
                    /\ idx' = 0
                    /\ delay' = BaseDelay
                    /\ UNCHANGED <<pc, emitted, db_tx, db_open, prev>>
               ELSE /\ YieldFirst(r.entries, step.result)
                    /\ delay' = BaseDelay
                    /\ UNCHANGED <<db_tx, db_open, prev>>
    /\ UNCHANGED <<process, after_arg, reset_arg, after_full_id, query,
                   ndone, kv_store, start_stored>>
    /\ HandlersKept
    /\ UNCHANGED aux

\* a response to the streaming request of FeedProcess.iter_submissions: a
\* page without entries sends the loop straight to the next request
QuerySubmissions ==
    /\ pc = "fetch"
    /\ process = "FeedProcess"
    /\ \E n \in published..MaxEntries :
       /\ published' = n
       /\ \E r \in Responses(process, query, n) :
           LET step == ParseFeedStep(r)
           IN  IF step.outcome = "raise"
               THEN /\ Die("error")
                    /\ UNCHANGED <<doc, result, idx, emitted>>
               ELSE IF Len(step.result) = 0
               THEN /\ doc' = r.entries
                    /\ result' = step.result
                    /\ idx' = 0
                    /\ UNCHANGED <<pc, emitted, db_tx, db_open, prev>>
               ELSE /\ YieldFirst(r.entries, step.result)
                    /\ UNCHANGED <<db_tx, db_open, prev>>
    /\ UNCHANGED <<process, after_arg, reset_arg, after_full_id, query,
                   delay, ndone, kv_store, start_stored>>
    /\ HandlersKept
    /\ UNCHANGED aux

\* the consumer's callback for the entry in hand returns
CallbackReturn ==
    /\ pc = "consume"
    /\ pc' = "returned"
    /\ ndone' = ndone + 1
    /\ UNCHANGED <<process, after_arg, reset_arg, after_full_id, query,
                   delay, doc, result, idx, emitted, kv_store,
                   db_tx, db_open, published, start_stored, prev>>
    /\ HandlersKept
    /\ UNCHANGED aux

\* the consumer's callback raises: nothing catches it, the process ends
CallbackRaise ==
    /\ pc = "consume"
    /\ Die("raise")
    /\ UNCHANGED <<process, after_arg, reset_arg, after_full_id, query,
                   delay, doc, result, idx, emitted, ndone, kv_store,
                   published, start_stored>>
    /\ HandlersKept
    /\ UNCHANGED aux

\* the generator taking the id to record from the page as the source sent
\* it (newest first) instead of from the entry it has just yielded
Resume_DocumentOrder ==
    /\ pc = "returned"
    /\ after_full_id' = doc[idx].id
    /\ IF idx < Len(result)
       THEN /\ idx' = idx + 1
            /\ emitted' = Append(emitted, result[idx + 1].id)
            /\ pc' = "consume"
            /\ UNCHANGED <<query, delay>>
       ELSE /\ pc' = "fetch"
            /\ query' = StreamQuery(process, doc[idx].id)
            /\ delay' = BaseDelay
            /\ UNCHANGED <<idx, emitted>>
    /\ UNCHANGED <<process, after_arg, reset_arg, doc, result, ndone,
                   kv_store, db_tx, db_open, published, start_stored,
                   prev>>
    /\ HandlersKept
    /\ UNCHANGED aux

\* the consumer asks for the next entry: the generator resumes after its
\* yield, records the id, and yields the next entry of the page or, at the
\* end of the page, issues the next request
Resume ==
    /\ pc = "returned"
    /\ after_full_id' = result[idx].id
    /\ IF idx < Len(result)
       THEN /\ idx' = idx + 1
            /\ emitted' = Append(emitted, result[idx + 1].id)
            /\ pc' = "consume"
            /\ UNCHANGED <<query, delay>>
       ELSE /\ pc' = "fetch"
            /\ query' = StreamQuery(process, result[idx].id)
            /\ delay' = BaseDelay
            /\ UNCHANGED <<idx, emitted>>
    /\ UNCHANGED <<process, after_arg, reset_arg, doc, result, ndone,
                   kv_store, db_tx, db_open, published, start_stored,
                   prev>>
    /\ HandlersKept
    /\ UNCHANGED aux

\* an exit handler that saves the cursor without testing it for None
ExitHandler_Unguarded ==
    /\ pc \in Running
    /\ handlers # {}
    /\ pc' = "super_exit"
    /\ IF process = "XMLProcess"
       THEN /\ kv_store' = Commit(kv_store, Upsert(DbKey(process), after_full_id))
            /\ db_tx' = None
       ELSE /\ db_tx' = Upsert(DbKey(process), after_full_id)
            /\ UNCHANGED kv_store
    /\ UNCHANGED <<process, after_arg, reset_arg, after_full_id, query,
                   delay, doc, result, idx, emitted, ndone, db_open,
                   published, start_stored, prev>>
    /\ HandlersKept
    /\ UNCHANGED aux

\* an exit handler that goes to the base handler without saving the cursor
ExitHandler_NoSave ==
    /\ pc \in Running
    /\ handlers # {}
    /\ pc' = "super_exit"
    /\ UNCHANGED <<process, after_arg, reset_arg, after_full_id, query,
                   delay, doc, result, idx, emitted, ndone, kv_store, db_tx,
                   db_open, published, start_stored, prev>>
    /\ HandlersKept
    /\ UNCHANGED aux

\* SIGINT or SIGTERM with the handlers installed: the _exit_handler of the
\* walker's class.  XMLProcess upserts and commits; FeedProcess upserts and
\* leaves the commit to the base class
ExitHandler ==
    /\ pc \in Running
    /\ handlers # {}
    /\ pc' = "super_exit"
    /\ IF after_full_id = None
       THEN UNCHANGED <<kv_store, db_tx>>
       ELSE IF process = "XMLProcess"
       THEN /\ kv_store' = Commit(kv_store, Upsert(DbKey(process), after_full_id))
            /\ db_tx' = None
       ELSE /\ db_tx' = Upsert(DbKey(process), after_full_id)
            /\ UNCHANGED kv_store
    /\ UNCHANGED <<process, after_arg, reset_arg, after_full_id, query,
                   delay, doc, result, idx, emitted, ndone, db_open,
                   published, start_stored, prev>>
    /\ HandlersKept
    /\ UNCHANGED aux

\* a second signal while the base handler runs: _exit_handler is entered
\* again.  On the open connection it saves the cursor once more; once the
\* connection is closed, self.db.cursor() (or, without a cursor in memory,
\* self.db.commit()) raises InterfaceError and the process ends with it
ExitHandlerNested ==
    /\ pc \in InBaseHandler
    /\ handlers # {}
    /\ IF db_open
       THEN /\ pc' = "super_exit"
            /\ IF after_full_id = None
               THEN UNCHANGED <<kv_store, db_tx>>
               ELSE IF process = "XMLProcess"
               THEN /\ kv_store' = Commit(kv_store,
                                          Upsert(DbKey(process), after_full_id))
                    /\ db_tx' = None
               ELSE /\ db_tx' = Upsert(DbKey(process), after_full_id)
                    /\ UNCHANGED kv_store
            /\ UNCHANGED <<db_open, prev>>
       ELSE /\ Die("signal")
            /\ UNCHANGED kv_store
    /\ UNCHANGED <<process, after_arg, reset_arg, after_full_id, query,
                   delay, doc, result, idx, emitted, ndone, published,
                   start_stored>>
    /\ HandlersKept
    /\ UNCHANGED aux

\* APIProcess._exit_handler: self.db.commit()
SuperExitHandler ==
    /\ pc = "super_exit"
    /\ kv_store' = Commit(kv_store, db_tx)
    /\ db_tx' = None
    /\ pc' = "close"
    /\ UNCHANGED <<process, after_arg, reset_arg, after_full_id, query,
                   delay, doc, result, idx, emitted, ndone, db_open,
                   published, start_stored, prev>>
    /\ HandlersKept
    /\ UNCHANGED aux

\* APIProcess._exit_handler: self.db.close(), which drops what has not
\* been committed
SuperExitClose ==
    /\ pc = "close"
    /\ db_tx' = None
    /\ db_open' = FALSE
    /\ pc' = "exit"
    /\ UNCHANGED <<process, after_arg, reset_arg, after_full_id, query,
                   delay, doc, result, idx, emitted, ndone, kv_store,
                   published, start_stored, prev>>
    /\ HandlersKept
    /\ UNCHANGED aux

\* APIProcess._exit_handler: exit(0)
SuperExitExit ==
    /\ pc = "exit"
    /\ pc' = "exited"
    /\ prev' = RunRecord("signal")
    /\ UNCHANGED <<process, after_arg, reset_arg, after_full_id, query,
                   delay, doc, result, idx, emitted, ndone, kv_store, db_tx,
                   db_open, published, start_stored>>
    /\ HandlersKept
    /\ UNCHANGED aux

\* the process is killed (SIGKILL, power loss, or SIGINT / SIGTERM with no
\* handler installed): no handler runs
Kill ==
    /\ pc \in Running \cup InBaseHandler
    /\ Die("kill")
    /\ UNCHANGED <<process, after_arg, reset_arg, after_full_id, query,
                   delay, doc, result, idx, emitted, ndone, kv_store,
                   published, start_stored>>
    /\ HandlersKept
    /\ UNCHANGED aux

\* setup_interrupt_handlers before the walk: the first statement of
\* CommentProcess.run
InstallHandlers ==
    /\ pc = "start"
    /\ process = "XMLProcess"
    /\ handlers = {}
    /\ handlers' = setup_interrupt_handlers
    /\ UNCHANGED <<process, pc, after_arg, reset_arg, after_full_id, query,
                   delay, doc, result, idx, emitted, ndone, kv_store, db_tx,
                   db_open, published, start_stored, prev>>
    /\ UNCHANGED aux

\* FeedProcess.run: its first statement is super().run(), and the base
\* class has no run: AttributeError, before a handler is installed or
\* iter_submissions is called
FeedRun ==
    /\ pc = "start"
    /\ process = "FeedProcess"
    /\ Die("error")
    /\ UNCHANGED <<process, after_arg, reset_arg, after_full_id, query,
                   delay, doc, result, idx, emitted, ndone, kv_store,
                   published, start_stored>>
    /\ HandlersKept
    /\ UNCHANGED aux

\* the stream's process is started again
Restart ==
    /\ pc \in Stopped
    /\ pc' = "start"
    /\ \E a \in Args(process) : after_arg' = a[1] /\ reset_arg' = a[2]
    /\ after_full_id' = None
    /\ query' = NoQuery
    /\ delay' = BaseDelay
    /\ doc' = <<>>
    /\ result' = <<>>
    /\ idx' = 0
    /\ emitted' = <<>>
    /\ ndone' = 0
    /\ db_tx' = None
    /\ db_open' = TRUE
    /\ start_stored' = kv_store[DbKey(process)]
    /\ prev' = prev
    /\ UNCHANGED <<process, kv_store, published>>
    /\ HandlersKept
    /\ UNCHANGED aux

Next ==
    \/ IterEntries
    \/ GetLastEntry
    \/ GetLastSubmission
    \/ QueryFeed
    \/ QuerySubmissions
    \/ CallbackReturn
    \/ CallbackRaise
    \/ Resume
    \/ InstallHandlers
    \/ FeedRun
    \/ ExitHandler
    \/ ExitHandlerNested
    \/ SuperExitHandler
    \/ SuperExitClose
    \/ SuperExitExit
    \/ Kill
    \/ Restart

Spec == Init /\ [][Next]_vars

TypeOK ==
    /\ process \in Processes
    /\ pc \in Running \cup Stopped \cup InBaseHandler
    /\ handlers \in {{}, setup_interrupt_handlers}
    /\ idx \in 0..Len(result)
    /\ ndone \in 0..Len(emitted)
    /\ published \in 0..MaxEntries
    /\ delay \in {15, 30, 60, 120}
    /\ prev.end \in {"none", "signal", "kill", "raise", "error", "index"}

(***************************************************************************)
(* The request loop in time (PollerSpec): _query_feed of both classes at   *)
(* the grain of its waits.  The walker is about to call _query_feed        *)
(* ("idle"), at the top of the loop ("loop"), in sleep(wait) ("sleep"),    *)
(* waiting for the answer to its GET ("response"), or its consumer has     *)
(* the entry it has yielded ("consume").  The clock advances by Quantum    *)
(* seconds at a time.                                                      *)
(***************************************************************************)
MaxTime == 240
Quantum == 10
MaxPages == 2

\* --refresh of FeedProcess: [default: 60]
DefaultInterval == 60

PollerRunning == {"idle", "loop", "sleep", "response", "consume"}

\* what the walker keeps and the request loop does not touch
walker_only == <<after_arg, reset_arg, doc, emitted, ndone, start_stored,
                 prev>>

\* a sleep of the full delay, whatever time has passed since the last answer
Wait_Blind(last, d, t) == d

\* (self._last_timestamp + timedelta(seconds=delay) - datetime.utcnow())
\* .total_seconds()
Wait(last, d, t) == last + d - t

\* a handler that is run only once the sleep in progress has returned
HandlerRuns_AfterSleep(at) == at # "sleep"

\* signal.signal(SIGINT/SIGTERM, self._exit_handler): the handler runs in
\* the main thread as soon as the signal arrives, also inside sleep() and
\* inside the GET; it ends in exit(0), so a sleep it interrupts is not
\* resumed
HandlerRuns(at) == TRUE

\* the walker about to call _query_feed ("idle"): with no cursor it is in
\* get_last_entry / get_last_submission, with a cursor in its `while True`.
\* Its process has called setup_interrupt_handlers before the walk, or has
\* not
PollerInit ==
    /\ process \in Processes
    /\ handlers \in {{}, setup_interrupt_handlers}
    /\ pc = "idle"
    /\ after_arg = None
    /\ reset_arg = FALSE
    /\ \E n \in {0, 1} :
          /\ published = n
          /\ after_full_id = IF n = 0 THEN None ELSE SourceId(process, n)
    /\ query = NoQuery
    /\ delay = BaseDelay
    /\ doc = <<>>
    /\ result = <<>>
    /\ idx = 0
    /\ emitted = <<>>
    /\ ndone = 0
    /\ kv_store = [k \in Keys |-> None]
    /\ db_tx = None
    /\ db_open = TRUE
    /\ start_stored = None
    /\ prev = NoRun
    /\ PollerIdle
    /\ StreamsIdle
    /\ CodecIdle
    /\ CounterIdle
    /\ BucketIdle
    /\ InboxNone

\* the walker calls _query_feed, with limit=1 while it has no cursor and
\* with before=<cursor> once it has one: the delay of this call starts at
\* its base value (the fixed interval in FeedProcess)
CallQueryFeed ==
    /\ pc = "idle"
    /\ sig = None
    /\ pc' = "loop"
    /\ query' = IF after_full_id = None THEN LastEntryQuery
                ELSE StreamQuery(process, after_full_id)
    /\ delay' = IF process = "XMLProcess" THEN BaseDelay ELSE DefaultInterval
    /\ fails' = 0
    /\ UNCHANGED <<process, after_full_id, result, idx, kv_store, db_tx,
                   db_open, published, now, last_timestamp, wait, wake,
                   sig, walker_only, not_poller>>

\* the top of the loop: sleep for what is left of the delay, or issue the
\* GET at once when nothing is left or no request was made before
LoopTop ==
    /\ pc = "loop"
    /\ sig = None
    /\ IF last_timestamp = None
       THEN /\ pc' = "response"
            /\ UNCHANGED <<wait, wake>>
       ELSE /\ wait' = Wait(last_timestamp[1], delay, now)
            /\ IF wait' > 0
               THEN /\ pc' = "sleep"
                    /\ wake' = now + wait'
               ELSE /\ pc' = "response"
                    /\ UNCHANGED wake
    /\ UNCHANGED <<process, after_full_id, query, delay, result, idx,
                   kv_store, db_tx, db_open, published, now, last_timestamp,
                   fails, sig, walker_only, not_poller>>

\* sleep(wait) returns and the GET is issued
WakeUp ==
    /\ pc = "sleep"
    /\ now >= wake
    /\ sig = None \/ (handlers # {} /\ ~HandlerRuns(pc))
    /\ pc' = "response"
    /\ UNCHANGED <<process, after_full_id, query, delay, result, idx,
                   kv_store, db_tx, db_open, published, now, last_timestamp,
                   wait, wake, fails, sig, walker_only, not_poller>>

\* what the source may answer to the GET: an error page, a body that is not
\* well-formed XML, a feed without entries, or a page with the entry that
\* follows the n the walker has seen
PollerResponses(p, n) ==
    {[text |-> "html", entries |-> <<>>],
     [text |-> "malformed", entries |-> <<>>],
     [text |-> "atom", entries |-> <<>>]}
    \cup (IF n < MaxPages
          THEN {[text |-> "atom", entries |-> <<[id |-> SourceId(p, n + 1)]>>]}
          ELSE {})

\* _query_feed is left by an exception: its frame is gone and the process
\* ends without a handler
PollerRaise ==
    /\ pc' = "crashed"
    /\ db_open' = FALSE
    /\ wait' = 0
    /\ wake' = 0
    /\ UNCHANGED <<after_full_id, delay, result, idx, published>>

\* _query_feed has returned; `res` is the list the walker's `for` goes
\* over (oldest first) and `r` the response.  get_last_entry /
\* get_last_submission take the id of their entries[0] as the cursor at
\* once; the `for` of the walker yields the first entry of the list and
\* leaves the cursor as it is; FeedProcess goes on to its next call when
\* the list is empty
PollerReturn(res, r) ==
    /\ wait' = 0
    /\ wake' = 0
    /\ UNCHANGED <<delay, db_open>>
    /\ published' = published + Len(res)
    /\ IF query = LastEntryQuery
       THEN /\ after_full_id' = BaselineEntry(process, r).id
            /\ pc' = "idle"
            /\ UNCHANGED <<result, idx>>
       ELSE IF Len(res) = 0
       THEN /\ pc' = "idle"
            /\ UNCHANGED <<after_full_id, result, idx>>
       ELSE /\ result' = res
            /\ idx' = 1
            /\ pc' = "consume"
            /\ UNCHANGED after_full_id

\* the GET returns and _last_timestamp is set.  XMLProcess goes round its
\* loop, raises or returns the list; FeedProcess returns the response, which
\* the walker parses: ET.fromstring raises on a body that is no XML, and
\* entries[0] of the baseline raises on a feed without entries
Get ==
    /\ pc = "response"
    /\ sig = None
    /\ last_timestamp' = <<now>>
    /\ \E r \in PollerResponses(process, published) :
          IF process = "XMLProcess"
          THEN LET step == QueryFeedStep(r, delay)
               IN  IF step.outcome = "raise"
                   THEN /\ PollerRaise
                        /\ fails' = fails + 1
                   ELSE IF step.outcome = "retry"
                   THEN /\ pc' = "loop"
                        /\ fails' = fails + 1
                        /\ delay' = step.delay
                        /\ UNCHANGED <<after_full_id, result, idx, db_open,
                                       published, wait, wake>>
                   ELSE /\ PollerReturn(step.result, r)
                        /\ UNCHANGED fails
          ELSE LET step == ParseFeedStep(r)
               IN  IF step.outcome = "raise"
                      \/ (query = LastEntryQuery /\ Len(step.result) = 0)
                   THEN /\ PollerRaise
                        /\ UNCHANGED fails
                   ELSE /\ PollerReturn(step.result, r)
                        /\ UNCHANGED fails
    /\ UNCHANGED <<process, query, kv_store, db_tx, now, sig, walker_only,
                   not_poller>>

\* the consumer is done with the entry and asks for the next: the generator
\* resumes after its yield and records the id, then yields the next entry
\* of the list or, at its end, goes to its next _query_feed call
ResumeWalker ==
    /\ pc = "consume"
    /\ sig = None
    /\ after_full_id' = result[idx].id
    /\ IF idx < Len(result)
       THEN /\ idx' = idx + 1
            /\ UNCHANGED <<pc, result>>
       ELSE /\ pc' = "idle"
            /\ result' = <<>>
            /\ idx' = 0
    /\ UNCHANGED <<process, query, delay, kv_store, db_tx, db_open,
                   published, now, last_timestamp, wait, wake, fails, sig,
                   walker_only, not_poller>>

\* the consumer's loop body raises: nothing catches it
ConsumerRaise ==
    /\ pc = "consume"
    /\ sig = None
    /\ pc' = "crashed"
    /\ db_open' = FALSE
    /\ UNCHANGED <<process, after_full_id, query, delay, result, idx,
                   kv_store, db_tx, published, now, last_timestamp, wait,
                   wake, fails, sig, walker_only, not_poller>>

\* SIGINT or SIGTERM arrives
Signal ==
    /\ pc \in PollerRunning
    /\ sig = None
    /\ sig' = <<[pc |-> pc, at |-> now]>>
    /\ UNCHANGED <<process, pc, after_full_id, query, delay, result, idx,
                   kv_store, db_tx, db_open, published, now, last_timestamp,
                   wait, wake, fails, walker_only, not_poller>>

\* the signal finds no handler installed: its default action (for SIGINT
\* the KeyboardInterrupt nothing catches) ends the process where it is,
\* also inside sleep() and inside the GET; nothing is stored and there is
\* no exit(0)
SignalKills ==
    /\ sig # None
    /\ pc \in PollerRunning
    /\ handlers = {}
    /\ pc' = "crashed"
    /\ db_tx' = None
    /\ db_open' = FALSE
    /\ UNCHANGED <<process, after_full_id, query, delay, result, idx,
                   kv_store, published, now, last_timestamp, wait, wake,
                   fails, sig, walker_only, not_poller>>

\* the signal finds the handlers installed: _exit_handler of the walker's
\* class and of the base class, to exit(0): the cursor in memory is
\* upserted and committed, the connection closed
RunExitHandler ==
    /\ sig # None
    /\ pc \in PollerRunning
    /\ handlers # {}
    /\ HandlerRuns(pc)
    /\ kv_store' = IF after_full_id = None THEN kv_store
                   ELSE Commit(kv_store, Upsert(DbKey(process), after_full_id))
    /\ db_tx' = None
    /\ db_open' = FALSE
    /\ pc' = "exited"
    /\ UNCHANGED <<process, after_full_id, query, delay, result, idx,
                   published, now, last_timestamp, wait, wake, fails, sig,
                   walker_only, not_poller>>

\* time passes, unless a signal is due to end the process
Tick ==
    /\ pc \in PollerRunning
    /\ now < MaxTime
    /\ ~(sig # None /\ (handlers = {} \/ HandlerRuns(pc)))
    /\ now' = now + Quantum
    /\ UNCHANGED <<process, pc, after_full_id, query, delay, result, idx,
                   kv_store, db_tx, db_open, published, last_timestamp,
                   wait, wake, fails, sig, walker_only, not_poller>>

PollerNext ==
    \/ CallQueryFeed
    \/ LoopTop
    \/ WakeUp
    \/ Get
    \/ ResumeWalker
    \/ ConsumerRaise
    \/ Signal
    \/ SignalKills
    \/ RunExitHandler
    \/ Tick

PollerSpec == PollerInit /\ [][PollerNext]_vars

(***************************************************************************)
(* Several streams on one database (StreamsSpec): two walkers, each for    *)
(* its own (subreddit, path), started, answered, resumed, ended by an      *)
(* exception and shut down in any order.  CommentProcess walks `comments`  *)
(* of its subreddit, FeedProcess walks `new`.                              *)
(***************************************************************************)
\* the number of entries a stream may hold when its baseline is taken
MaxNewest == 2

Subreddits == {<<"a">>, <<"b">>}

Path(p) == IF p = "XMLProcess" THEN <<"comments">> ELSE <<"new">>

StreamSet ==
    {[cls |-> p, subreddit |-> sr, path |-> Path(p)] :
        p \in Processes, sr \in Subreddits}

\* the key of the cursor row of a stream: self._db_key =
\* f'{subreddit}_{path}_after_full_id' in XMLProcess, the literal
\* 'after_full_id' in the statements of FeedProcess
db_key(st) ==
    IF st.cls = "XMLProcess"
    THEN st.subreddit \o <<"_">> \o st.path \o <<"_after_full_id">>
    ELSE <<"after_full_id">>

\* the i-th entry published on a stream
StreamEntry(st, i) == to_full_id(Kind(st.cls), st.subreddit \o Base36(i))

\* the place of an id among the entries of a stream (0: not one of them)
StreamIndex(st, id) ==
    IF \E i \in 1..MaxEntries : StreamEntry(st, i) = id
    THEN CHOOSE i \in 1..MaxEntries : StreamEntry(st, i) = id
    ELSE 0

\* the walker's own variables at rest, for the specifications that do not
\* run it
WalkerRest ==
    /\ process = "XMLProcess"
    /\ pc = "start"
    /\ after_arg = None
    /\ reset_arg = FALSE
    /\ after_full_id = None
    /\ query = NoQuery
    /\ delay = BaseDelay
    /\ doc = <<>>
    /\ result = <<>>
    /\ idx = 0
    /\ emitted = <<>>
    /\ ndone = 0
    /\ db_tx = None
    /\ db_open = TRUE
    /\ published = 0
    /\ start_stored = None
    /\ prev = NoRun

walker_vars == <<process, pc, after_arg, reset_arg, after_full_id, query,
                 delay, doc, result, idx, emitted, ndone, db_tx, db_open,
                 published, start_stored, prev>>

StreamsInit ==
    /\ WalkerRest
    /\ PollerIdle
    /\ CodecIdle
    /\ CounterIdle
    /\ BucketIdle
    /\ InboxIdle
    /\ kv_store = [k \in {db_key(st) : st \in StreamSet} |-> None]
    /\ \E s1, s2 \in StreamSet :
          /\ s1 # s2
          /\ walkers = [w \in 1..2 |->
                [stream |-> IF w = 1 THEN s1 ELSE s2, pc |-> "stopped",
                 after_full_id |-> None, entry |-> None, found |-> None,
                 saved |-> None]]

\* a walker's process is running: its baseline request is out ("baseline"),
\* its streaming request is out ("fetch"), or the consumer has the entry it
\* has yielded ("consume")
WalkerRunning == {"baseline", "fetch", "consume"}

\* what a stream's source may answer while its newest entry is the n-th
StreamResponses(st, q, n) ==
    LET i == IF q.before = None THEN n - 1 ELSE StreamIndex(st, q.before)
    IN  {[text |-> "html", entries |-> <<>>],
         [text |-> "malformed", entries |-> <<>>],
         [text |-> "atom", entries |-> <<>>]}
        \cup (IF i + 1 \in 1..n /\ (q.before = None \/ i >= 1)
              THEN {[text |-> "atom", entries |-> <<[id |-> StreamEntry(st, i + 1)]>>]}
              ELSE {})

\* what the walker's class makes of a response: it goes round its loop
\* (XMLProcess), raises, or has the list of entries
WalkerStep(st, r) ==
    IF st.cls = "XMLProcess" THEN QueryFeedStep(r, BaseDelay)
    ELSE [outcome |-> ParseFeedStep(r).outcome, delay |-> 0,
          result |-> ParseFeedStep(r).result]

\* a process is started without options: iter_entries / iter_submissions
\* reads the row under its key and starts from it; when it finds none it
\* sends the limit=1 request, with no cursor in memory until the answer
StartWalker(w) ==
    /\ walkers[w].pc \in {"stopped", "crashed"}
    /\ LET st == walkers[w].stream
           row == kv_store[db_key(st)]
           r == Resolve(st.cls, None, FALSE, row)
       IN  walkers' = [walkers EXCEPT ![w] =
               [@ EXCEPT !.pc = IF r.outcome = "cursor" THEN "fetch"
                                ELSE "baseline",
                         !.found = row,
                         !.entry = None,
                         !.after_full_id = IF r.outcome = "cursor" THEN r.id
                                           ELSE None]]
    /\ UNCHANGED <<kv_store, walker_vars, not_streams>>

\* the answer to the limit=1 request: get_last_entry / get_last_submission
\* take entries[0] as the cursor.  A body that does not parse raises, and
\* so does entries[0] of FeedProcess on a feed without entries; XMLProcess
\* asks again after an error page or a feed without entries
BaselineWalker(w) ==
    /\ walkers[w].pc = "baseline"
    /\ LET st == walkers[w].stream
       IN  \E n \in 1..MaxNewest :
           \E r \in StreamResponses(st, LastEntryQuery, n) :
              LET step == WalkerStep(st, r)
              IN  /\ step.outcome # "retry"
                  /\ walkers' = [walkers EXCEPT ![w] =
                        IF step.outcome = "raise" \/ Len(step.result) = 0
                        THEN [@ EXCEPT !.pc = "crashed"]
                        ELSE [@ EXCEPT !.pc = "fetch",
                                       !.after_full_id =
                                           BaselineEntry(st.cls, r).id]]
    /\ UNCHANGED <<kv_store, walker_vars, not_streams>>

\* the answer to the streaming request: the walker yields the entry that
\* follows its cursor and keeps its cursor; a body that does not parse
\* raises; after an error page or a feed without entries the request is
\* made again
AdvanceWalker(w) ==
    /\ walkers[w].pc = "fetch"
    /\ LET st == walkers[w].stream
           q == StreamQuery(st.cls, walkers[w].after_full_id)
       IN  \E r \in StreamResponses(st, q, MaxEntries) :
              LET step == WalkerStep(st, r)
              IN  /\ step.outcome # "retry"
                  /\ step.outcome = "return" => Len(step.result) > 0
                  /\ walkers' = [walkers EXCEPT ![w] =
                        IF step.outcome = "raise"
                        THEN [@ EXCEPT !.pc = "crashed"]
                        ELSE [@ EXCEPT !.pc = "consume",
                                       !.entry = step.result[1].id]]
    /\ UNCHANGED <<kv_store, walker_vars, not_streams>>

\* the consumer asks for the next entry: the generator resumes, records the
\* id of the entry it had yielded and makes its next request
ResumeStream(w) ==
    /\ walkers[w].pc = "consume"
    /\ walkers' = [walkers EXCEPT ![w] =
          [@ EXCEPT !.pc = "fetch",
                    !.after_full_id = walkers[w].entry,
                    !.entry = None]]
    /\ UNCHANGED <<kv_store, walker_vars, not_streams>>

\* the consumer's loop body raises: the process ends, nothing is saved
RaiseStream(w) ==
    /\ walkers[w].pc = "consume"
    /\ walkers' = [walkers EXCEPT ![w] = [@ EXCEPT !.pc = "crashed"]]
    /\ UNCHANGED <<kv_store, walker_vars, not_streams>>

\* SIGINT or SIGTERM, wherever the process is: the exit handler saves the
\* cursor under the key when there is one
StopWalker(w) ==
    /\ walkers[w].pc \in WalkerRunning
    /\ LET st == walkers[w].stream
           cur == walkers[w].after_full_id
       IN  /\ kv_store' = IF cur = None THEN kv_store
                          ELSE Commit(kv_store, Upsert(db_key(st), cur))
           /\ walkers' = [walkers EXCEPT ![w] =
                  [@ EXCEPT !.pc = "stopped",
                            !.saved = IF cur = None THEN @ ELSE cur]]
    /\ UNCHANGED <<walker_vars, not_streams>>

StreamsNext ==
    \/ \E w \in 1..2 : StartWalker(w)
    \/ \E w \in 1..2 : BaselineWalker(w)
    \/ \E w \in 1..2 : AdvanceWalker(w)
    \/ \E w \in 1..2 : ResumeStream(w)
    \/ \E w \in 1..2 : RaiseStream(w)
    \/ \E w \in 1..2 : StopWalker(w)

StreamsSpec == StreamsInit /\ [][StreamsNext]_vars

(***************************************************************************)
(* The identifier codec (CodecSpec): one input, to which the resolution    *)
(* of --after or the round trip of _to_full_id and _to_short_id is         *)
(* applied.                                                                *)
(***************************************************************************)
\* an id of six characters, as the source hands them out
SixId == <<"a", "b", "c", "1", "2", "3">>

\* short ids of several lengths, full ids of both kinds, URLs, and strings
\* of no accepted shape
CodecStrings ==
    {<<"2">>, <<"t", "1">>, SixId, SixId \o <<"z">>,
     to_full_id(kinds("comment"), SixId),
     to_full_id(kinds("submission"), SixId),
     to_full_id(kinds("comment"), <<"2">>),
     to_full_id(kinds("submission"), <<"2">>),
     <<"/">> \o SixId, <<"/">> \o <<"2">>,
     <<"A", "B", "C", "1", "2", "3">>, <<"_">>, SixId \o <<"_">>,
     <<"/">>}

CodecInit ==
    /\ WalkerRest
    /\ kv_store = [k \in Keys |-> None]
    /\ PollerIdle
    /\ StreamsIdle
    /\ CounterIdle
    /\ BucketIdle
    /\ InboxIdle
    /\ codec_in \in [process : Processes, kind : KindNames, s : CodecStrings]
    /\ codec_out = NoOutput

\* iter_entries(after=s) / iter_submissions(after=s) up to the assignment of
\* self._after_full_id
ResolveAfter ==
    /\ codec_out.op = "none"
    /\ LET r == Resolve(codec_in.process, codec_in.s, FALSE, None)
       IN  codec_out' = [op |-> "resolve", outcome |-> r.outcome, id |-> r.id,
                         full |-> None, short |-> None]
    /\ UNCHANGED <<codec_in, kv_store, walker_vars, not_codec>>

\* _to_short_id(_to_full_id(kind, s))
RoundTrip ==
    /\ codec_out.op = "none"
    /\ LET full == to_full_id(kinds(codec_in.kind), codec_in.s)
       IN  codec_out' = [op |-> "round_trip", outcome |-> "return",
                         id |-> None, full |-> full,
                         short |-> to_short_id(full)]
    /\ UNCHANGED <<codec_in, kv_store, walker_vars, not_codec>>

CodecNext ==
    \/ ResolveAfter
    \/ RoundTrip

CodecSpec == CodecInit /\ [][CodecNext]_vars

(***************************************************************************)
(* Dates and times of day.  A date is the number of its day; a time of     *)
(* day carries its utcoffset in minutes as <<m>>, or None when naive.      *)
(***************************************************************************)
Time(h, m, s, off) == [hour |-> h, minute |-> m, second |-> s, utcoffset |-> off]

UTC == <<0>>

SecondsPerDay == 86400

SecondsOfDay(t) == t.hour * 3600 + t.minute * 60 + t.second

TimeOfSeconds(n, off) ==
    Time(n \div 3600, (n % 3600) \div 60, n % 60, off)

\* datetime.astimezone(timezone.utc) of an aware datetime
astimezone_utc(dt) ==
    LET n == SecondsOfDay(dt.time) - 60 * dt.time.utcoffset[1]
    IN  [day |-> dt.day + (IF n < 0 THEN -1 ELSE IF n >= SecondsPerDay THEN 1 ELSE 0),
         time |-> TimeOfSeconds(n % SecondsPerDay, UTC)]

\* a < b of two aware datetime.time values: with the same utcoffset the
\* clock readings are compared, otherwise the readings less their
\* utcoffset, which are not brought back into the day
time_lt(a, b) ==
    IF a.utcoffset = b.utcoffset
    THEN SecondsOfDay(a) < SecondsOfDay(b)
    ELSE SecondsOfDay(a) - 60 * a.utcoffset[1]
            < SecondsOfDay(b) - 60 * b.utcoffset[1]

\* _get_comment_date with self.cutoff_time = cutoff: the date of `updated`,
\* or the day before when its time of day is before the cutoff
comment_date(cutoff, updated) ==
    IF time_lt(updated.time, cutoff) THEN updated.day - 1 ELSE updated.day

(***************************************************************************)
(* The comment counter (CounterSpec): the loop of CommentProcess.run over  *)
(* the entry dicts the walker yields.                                      *)
(***************************************************************************)
UpperLetters ==
    <<"A", "B", "C", "D", "E", "F", "G", "H", "I", "J", "K", "L", "M", "N",
      "O", "P", "Q", "R", "S", "T", "U", "V", "W", "X", "Y", "Z">>

\* str.lower()
Lower(s) ==
    [k \in 1..Len(s) |->
        IF \E n \in 1..26 : UpperLetters[n] = s[k]
        THEN Base36Digits[10 + (CHOOSE n \in 1..26 : UpperLetters[n] = s[k])]
        ELSE s[k]]

\* str.strip()
RECURSIVE Strip(_)
Strip(s) ==
    IF s = <<>> THEN s
    ELSE IF Head(s) = " " THEN Strip(Tail(s))
    ELSE IF s[Len(s)] = " " THEN Strip(SubSeq(s, 1, Len(s) - 1))
    ELSE s

\* the set run builds from bot_comments_blacklist
Blacklist(cfg) == {Lower(Strip(cfg[k])) : k \in 1..Len(cfg)}

\* the key run reads the author from
AuthorKey == "author_name"

\* the dict _query_feed builds from the atom:entry of comment `cid` by
\* `name` on submission `sub`, updated on `day` at `hour`
CommentEntry(cid, name, sub, day, hour) ==
    [author |-> [name |-> name, uri |-> <<"/">> \o name],
     category |-> <<>>,
     content |-> <<>>,
     id |-> to_full_id(kinds("comment"), cid),
     link |-> <<"/">> \o sub,
     updated |-> [day |-> day, hour |-> hour],
     title |-> <<>>]

\* bot_comments_cutoff_time of praw.ini, as an hour of the day
cutoff_time == 6

\* _get_comment_date: the day, or the day before for a comment made before
\* the cutoff time
get_comment_date(updated) ==
    comment_date(Time(cutoff_time, 0, 0, UTC),
                 [day |-> updated.day, time |-> Time(updated.hour, 0, 0, UTC)])

\* the primary key register_comment counts under
CommentKey(entry_dict) ==
    <<id_from_url(entry_dict.link),
      SubSeq(entry_dict.author.name, 4, Len(entry_dict.author.name)),
      get_comment_date(entry_dict.updated)>>

\* register_comment: INSERT ... ON CONFLICT DO NOTHING; UPDATE ... + 1
register_comment(table, entry_dict) ==
    LET key == CommentKey(entry_dict)
    IN  IF key \in DOMAIN table THEN [table EXCEPT ![key] = @ + 1]
        ELSE [k \in DOMAIN table \cup {key} |->
                 IF k = key THEN 1 ELSE table[k]]

MaxFeed == 2

FeedEntries ==
    {CommentEntry(Lower(SubSeq(n, 4, Len(n))) \o Base36(h), n, <<"s">>, 2, h) :
        n \in {<<"/", "u", "/", "B", "o", "b">>, <<"/", "u", "/", "a", "l">>},
        h \in {3, 9}}

BlacklistConfigs ==
    {<<<<>>>>, <<<<"b", "o", "b">>>>, <<<<"a", "l">>, <<" ", "B", "O", "B">>>>}

RECURSIVE SeqsUpTo(_, _)
SeqsUpTo(S, n) ==
    IF n = 0 THEN {<<>>}
    ELSE SeqsUpTo(S, n - 1)
         \cup {Append(q, x) : q \in {t \in SeqsUpTo(S, n - 1) : Len(t) = n - 1},
                              x \in S}

CounterInit ==
    /\ WalkerRest
    /\ kv_store = [k \in Keys |-> None]
    /\ PollerIdle
    /\ StreamsIdle
    /\ CodecIdle
    /\ BucketIdle
    /\ InboxIdle
    /\ blacklist_cfg \in BlacklistConfigs
    /\ feed \in SeqsUpTo(FeedEntries, MaxFeed)
    /\ handled = 0
    /\ comment = <<>>
    /\ run_state = "running"

\* one turn of the for loop of run: the author is read from the entry dict
\* under AuthorKey (KeyError when the dict has no such key), and the
\* comment is registered unless the author is in the blacklist
RunEntry ==
    /\ run_state = "running"
    /\ handled < Len(feed)
    /\ handled' = handled + 1
    /\ LET entry_dict == feed[handled + 1]
       IN  IF AuthorKey \notin DOMAIN entry_dict
           THEN /\ run_state' = "raised"
                /\ UNCHANGED comment
           ELSE /\ IF Lower(entry_dict[AuthorKey]) \notin Blacklist(blacklist_cfg)
                   THEN comment' = register_comment(comment, entry_dict)
                   ELSE UNCHANGED comment
                /\ UNCHANGED run_state
    /\ UNCHANGED <<blacklist_cfg, feed, kv_store, walker_vars, not_counter>>

CounterNext == RunEntry

CounterSpec == CounterInit /\ [][CounterNext]_vars

(***************************************************************************)
(* The bucket date (BucketSpec): a CommentProcess is constructed with a    *)
(* cutoff time and _get_comment_date is applied to the `updated` of one    *)
(* entry dict.                                                             *)
(***************************************************************************)
\* values of bot_comments_cutoff_time: 00:00+00:00, 06:00+00:00,
\* 06:00-03:00, 00:00+02:00, 22:00-03:00 and the naive 06:00
CutoffTimes ==
    {Time(0, 0, 0, UTC), Time(6, 0, 0, UTC), Time(6, 0, 0, <<-180>>),
     Time(0, 0, 0, <<120>>), Time(22, 0, 0, <<-180>>), Time(6, 0, 0, None)}

\* atom:updated of the entries, as the feed writes them
UpdatedTexts ==
    {[day |-> d, time |-> t] :
        d \in {5, 6},
        t \in {Time(0, 0, 0, UTC), Time(5, 0, 0, UTC), Time(5, 59, 59, UTC),
               Time(6, 0, 0, UTC), Time(21, 0, 0, UTC), Time(23, 59, 59, UTC),
               Time(1, 0, 0, <<120>>)}}

BucketInit ==
    /\ WalkerRest
    /\ kv_store = [k \in Keys |-> None]
    /\ PollerIdle
    /\ StreamsIdle
    /\ CodecIdle
    /\ CounterIdle
    /\ InboxIdle
    /\ \E c \in CutoffTimes, u \in UpdatedTexts :
          bucket_in = [cutoff |-> c, updated |-> astimezone_utc(u)]
    /\ bucket_out = [state |-> "new", date |-> 0]

\* CommentProcess.__init__: a cutoff time without utcoffset is refused
CommentProcessInit ==
    /\ bucket_out.state = "new"
    /\ bucket_out' = [bucket_out EXCEPT !.state =
                         IF bucket_in.cutoff.utcoffset = None
                         THEN "raised" ELSE "ready"]
    /\ UNCHANGED <<bucket_in, kv_store, walker_vars, not_bucket>>

\* _get_comment_date(entry_dict['updated'])
GetCommentDate ==
    /\ bucket_out.state = "ready"
    /\ bucket_out' = [state |-> "returned",
                      date |-> comment_date(bucket_in.cutoff, bucket_in.updated)]
    /\ UNCHANGED <<bucket_in, kv_store, walker_vars, not_bucket>>

BucketNext ==
    \/ CommentProcessInit
    \/ GetCommentDate

BucketSpec == BucketInit /\ [][BucketNext]_vars

(***************************************************************************)
(* Decoding a page entry by entry (DecodeSpec): the walker from a request  *)
(* to the entries of its page, at the grain of the loop that builds the    *)
(* entry dicts.  An atom:entry without one of the elements the loop reads  *)
(* (ok = FALSE) makes the loop raise when it comes to it.  While a page is *)
(* decoded, `result` holds the dicts built so far, in document order.  A   *)
(* signal is handled at every position, inside the loop too.               *)
(***************************************************************************)
\* the page as the source sends it, the entry at `broken` (if any) lacking
\* an element
RawPage(page, broken) ==
    [k \in 1..Len(page) |-> [id |-> page[k].id, ok |-> k # broken]]

\* a walker with its handlers installed, its first request out
DecodeInit ==
    /\ PollerIdle
    /\ StreamsIdle
    /\ CodecIdle
    /\ CounterIdle
    /\ BucketIdle
    /\ InboxNone
    /\ handlers = setup_interrupt_handlers
    /\ process \in Processes
    /\ after_arg = None
    /\ reset_arg = FALSE
    /\ delay = BaseDelay
    /\ doc = <<>>
    /\ result = <<>>
    /\ idx = 0
    /\ emitted = <<>>
    /\ ndone = 0
    /\ db_tx = None
    /\ db_open = TRUE
    /\ published = 1
    /\ prev = NoRun
    /\ \E stored \in {None, SourceId(process, 1)} :
          /\ kv_store = [k \in Keys |-> IF k = DbKey(process) THEN stored ELSE None]
          /\ start_stored = stored
          /\ after_full_id = stored
          /\ IF stored = None
             THEN pc = "baseline_fetch" /\ query = LastEntryQuery
             ELSE pc = "fetch" /\ query = StreamQuery(process, stored)

decode_frame == <<process, after_arg, reset_arg, ndone, kv_store, start_stored>>

\* http_session.get raises (the connection fails): nothing catches it
FetchFail ==
    /\ pc \in {"baseline_fetch", "fetch"}
    /\ Die("error")
    /\ UNCHANGED <<after_full_id, query, delay, doc, result, idx, emitted,
                   published, decode_frame, aux>>
    /\ HandlersKept

\* the response arrives.  XMLProcess goes round its loop with a doubled
\* delay on an error page and on a feed without entries; ET.fromstring
\* raises on a body that is no XML (for FeedProcess the error page too);
\* otherwise findall / iterfind give the atom:entry elements
Receive ==
    /\ pc \in {"baseline_fetch", "fetch"}
    /\ \E n \in published..MaxEntries :
       /\ published' = n
       /\ \E r \in Responses(process, query, n) :
          \E broken \in 0..Len(r.entries) :
             LET outcome == IF process = "XMLProcess"
                            THEN QueryFeedStep(r, delay).outcome
                            ELSE ParseFeedStep(r).outcome
             IN  IF outcome = "raise"
                 THEN /\ Die("error")
                      /\ UNCHANGED <<delay, doc, result, idx>>
                 ELSE IF outcome = "retry"
                 THEN /\ delay' = QueryFeedStep(r, delay).delay
                      /\ UNCHANGED <<pc, doc, result, idx, db_tx, db_open,
                                     prev>>
                 ELSE /\ doc' = RawPage(r.entries, broken)
                      /\ result' = <<>>
                      /\ idx' = 0
                      /\ pc' = "decode"
                      /\ UNCHANGED <<delay, db_tx, db_open, prev>>
    /\ UNCHANGED <<after_full_id, query, emitted, decode_frame, aux>>
    /\ HandlersKept

\* one turn of the loop over the entries with the cursor moved to the
\* entry as soon as its dict is built
DecodeEntry_Eager ==
    /\ pc = "decode"
    /\ idx < Len(doc)
    /\ IF doc[idx + 1].ok
       THEN /\ result' = Append(result, EntryDict(doc[idx + 1]))
            /\ idx' = idx + 1
            /\ after_full_id' = doc[idx + 1].id
            /\ UNCHANGED <<pc, db_tx, db_open, prev>>
       ELSE /\ Die("error")
            /\ UNCHANGED <<result, idx, after_full_id>>
    /\ UNCHANGED <<query, delay, doc, emitted, published,
                   decode_frame, aux>>
    /\ HandlersKept

\* one turn of the loop over the entries (_query_feed, _parse_feed): the
\* dict of the next entry is built, or the find of a missing element
\* returns None and the attribute read on it raises
DecodeEntry ==
    /\ pc = "decode"
    /\ idx < Len(doc)
    /\ IF doc[idx + 1].ok
       THEN /\ result' = Append(result, EntryDict(doc[idx + 1]))
            /\ idx' = idx + 1
            /\ UNCHANGED <<pc, db_tx, db_open, prev>>
       ELSE /\ Die("error")
            /\ UNCHANGED <<result, idx>>
    /\ UNCHANGED <<after_full_id, query, delay, doc, emitted, published,
                   decode_frame, aux>>
    /\ HandlersKept

\* the loop over the entries is done.  get_last_entry takes entries[0] of
\* the reversed list _query_feed returns, get_last_submission's caller
\* entries[0] of the tuple in document order (IndexError on an empty
\* tuple); the streaming loop yields the first entry of the reversed list,
\* or asks again when FeedProcess got none
FinishDecode ==
    /\ pc = "decode"
    /\ idx = Len(doc)
    /\ LET reversed == Reverse(result)
           entries == IF process = "XMLProcess" THEN reversed ELSE result
       IN  IF query.before = None
           THEN IF Len(entries) = 0
                THEN /\ Die("error")
                     /\ UNCHANGED <<after_full_id, query, delay, result, idx,
                                    emitted>>
                ELSE /\ after_full_id' = entries[1].id
                     /\ query' = StreamQuery(process, entries[1].id)
                     /\ delay' = BaseDelay
                     /\ result' = entries
                     /\ pc' = "fetch"
                     /\ UNCHANGED <<idx, emitted, db_tx, db_open, prev>>
           ELSE IF Len(reversed) = 0
           THEN /\ pc' = "fetch"
                /\ UNCHANGED <<after_full_id, query, delay, result, idx,
                               emitted, db_tx, db_open, prev>>
           ELSE /\ result' = reversed
                /\ idx' = 1
                /\ emitted' = Append(emitted, reversed[1].id)
                /\ delay' = BaseDelay
                /\ pc' = "consume"
                /\ UNCHANGED <<after_full_id, query, db_tx, db_open, prev>>
    /\ UNCHANGED <<doc, published, decode_frame, aux>>
    /\ HandlersKept

DecodeNext ==
    \/ FetchFail
    \/ Receive
    \/ DecodeEntry
    \/ FinishDecode
    \/ CallbackReturn
    \/ Resume
    \/ ExitHandler
    \/ SuperExitHandler
    \/ SuperExitClose
    \/ SuperExitExit

DecodeSpec == DecodeInit /\ [][DecodeNext]_vars

(***************************************************************************)
(* The inbox process (InboxSpec): the methods of InboxProcess.  run ends   *)
(* at its first statement, so the statements of its loop are taken one     *)
(* item of reddit.inbox.stream() at a time by a caller of the methods,     *)
(* with the signals that end the process.  An item is a message or a       *)
(* comment reply; a message has a subject and an author.                   *)
(***************************************************************************)
MaxItems == 26

\* len(self._seen_items) at which _add_seen flushes
SeenLimit == 25

Subscribe == <<"S", "u", "b", "s", "c", "r", "i", "b", "e">>

Unsubscribe == <<"U", "n", "s", "u", "b", "s", "c", "r", "i", "b", "e">>

\* message_re.fullmatch(subject): None, or the two groups of the match
message_re(subject) ==
    LET words == {w \in {Subscribe, Unsubscribe} :
                     /\ Len(subject) > Len(w) + 1
                     /\ SubSeq(subject, 1, Len(w)) = w
                     /\ subject[Len(w) + 1] = " "
                     /\ base36_pattern(SubSeq(subject, Len(w) + 2, Len(subject)))}
    IN  IF words = {} THEN None
        ELSE LET w == CHOOSE x \in words : TRUE
             IN  <<w, SubSeq(subject, Len(w) + 2, Len(subject))>>

\* submission_id VARCHAR(16) of table subscription
SubmissionIdWidth == 16

\* user_name VARCHAR(256) of table subscription
UserNameWidth == 256

\* INSERT INTO subscription ... ON CONFLICT ON CONSTRAINT subscription_pkey
\* DO NOTHING: whether cur.execute raises, and the table the statement
\* makes once committed.  A value longer than its column is not stored:
\* DataError (value too long for type character varying)
InsertSubscription(table, submission_id, user_name) ==
    IF Len(submission_id) > SubmissionIdWidth \/ Len(user_name) > UserNameWidth
    THEN [raises |-> TRUE, table |-> table]
    ELSE [raises |-> FALSE, table |-> table \cup {<<submission_id, user_name>>}]

\* DELETE FROM subscription WHERE submission_id=%s AND user_name=%s: no
\* row has a value longer than its column, so that such a value matches
\* none and the statement does not fail
DeleteSubscription(table, submission_id, user_name) ==
    [raises |-> FALSE, table |-> table \ {<<submission_id, user_name>>}]

\* process_message: whether its cur.execute raises, and the table after
\* `message`; a subject that is no command leaves it alone (the message
\* goes to forward_item)
process_message(table, message) ==
    LET match == message_re(message.subject)
    IN  IF match = None THEN [raises |-> FALSE, table |-> table]
        ELSE IF match[1] = Subscribe
        THEN InsertSubscription(table, match[2], message.author)
        ELSE DeleteSubscription(table, match[2], message.author)

\* the submissions and the users of the messages
SubmissionIds == {<<"a", "1">>, <<"b", "2">>}

\* an id that message_re matches and that is one character longer than
\* the submission_id column
LongId == [k \in 1..SubmissionIdWidth + 1 |-> "a"]

UserNames == {<<"a", "l">>, <<"b", "o", "b">>}

Pairs ==
    {<<i, u>> : i \in SubmissionIds, u \in UserNames}
        \cup {<<LongId, <<"a", "l">>>>}

\* what reddit.inbox.stream() can yield: a command message written by a
\* user, a message with another subject, a comment reply
InboxItems ==
    {[n |-> 0, kind |-> "Message", subject |-> op \o <<" ">> \o i, author |-> u,
      sent |-> <<op, i>>] :
        op \in {Subscribe, Unsubscribe}, i \in SubmissionIds, u \in UserNames}
    \cup {[n |-> 0, kind |-> "Message", subject |-> op \o <<" ">> \o LongId,
           author |-> <<"a", "l">>, sent |-> <<op, LongId>>] :
             op \in {Subscribe, Unsubscribe}}
    \cup {[n |-> 0, kind |-> "Message", subject |-> t, author |-> <<"a", "l">>,
           sent |-> <<>>] :
             t \in {<<"H", "i">>, <<"s">> \o Tail(Subscribe) \o <<" ", "a", "1">>}}
    \cup {[n |-> 0, kind |-> "Comment", subject |-> <<>>, author |-> <<"a", "l">>,
           sent |-> <<>>]}

\* handlers entered in one life of the process
MaxSignals == 2

InboxRunning ==
    {"rest", "process", "commit", "add_seen", "mark_read", "clear",
     "super_exit", "close", "exit"}

\* mark_read(items): one more marking of each of them
mark_read(counts, items) ==
    [n \in 1..Len(counts) |->
        counts[n] + Cardinality({k \in 1..Len(items) : items[k] = n})]

\* InboxProcess() as constructed: an empty buffer, no handler installed
InboxInit ==
    /\ WalkerRest
    /\ kv_store = [k \in Keys |-> None]
    /\ PollerIdle
    /\ StreamsIdle
    /\ CodecIdle
    /\ CounterIdle
    /\ BucketIdle
    /\ inbox_pc = "rest"
    /\ handlers = {}
    /\ signals = 0
    /\ item = NoItem
    /\ delivered = 0
    /\ seen_items = <<>>
    /\ marked = <<>>
    /\ subscription = {}
    /\ last_request = [p \in Pairs |-> "none"]

\* what the methods of InboxProcess leave alone; of the walker's state
\* they use the connection: db_open, and db_tx for the message whose
\* statement has been executed and not yet committed
inbox_frame ==
    <<process, pc, after_arg, reset_arg, after_full_id, query, delay, doc,
      result, idx, emitted, ndone, published, start_stored, prev, kv_store,
      not_inbox>>

\* run: its first statement is super().run(), and APIProcess has no run:
\* AttributeError, before a handler is installed or an item is taken
InboxRun ==
    /\ inbox_pc = "rest"
    /\ inbox_pc' = "crashed"
    /\ UNCHANGED <<handlers, signals, item, delivered, seen_items, marked,
                   subscription, last_request, db_tx, db_open, inbox_frame>>

\* setup_interrupt_handlers, called on the object (run does not get to it)
SetupInterruptHandlers ==
    /\ inbox_pc = "rest"
    /\ handlers = {}
    /\ handlers' = setup_interrupt_handlers
    /\ UNCHANGED <<inbox_pc, signals, item, delivered, seen_items, marked,
                   subscription, last_request, db_tx, db_open, inbox_frame>>

\* one more item of reddit.inbox.stream() is taken through the statements
\* of the loop of run (by a caller of the methods, since run does not get
\* to its loop)
NextItem ==
    /\ inbox_pc = "rest"
    /\ delivered < MaxItems
    /\ \E it \in InboxItems : item' = [it EXCEPT !.n = delivered + 1]
    /\ delivered' = delivered + 1
    /\ marked' = Append(marked, 0)
    /\ inbox_pc' = "process"
    /\ UNCHANGED <<handlers, signals, seen_items, subscription, last_request,
                   db_tx, db_open, inbox_frame>>

\* the body of the loop before _add_seen.  process_message of a command:
\* cur.execute(query_sql, ...), which leaves the statement in the open
\* transaction, or raises DataError, which nothing catches and which ends
\* the process; forward_item for another subject and for anything that is
\* no Message
ProcessItem ==
    /\ inbox_pc = "process"
    /\ IF item.kind = "Message" /\ message_re(item.subject) # None
       THEN /\ last_request' =
                  [last_request EXCEPT ![<<item.sent[2], item.author>>] =
                      IF item.sent[1] = Subscribe THEN "Subscribe"
                      ELSE "Unsubscribe"]
            /\ IF process_message(subscription, item).raises
               THEN inbox_pc' = "crashed" /\ UNCHANGED db_tx
               ELSE inbox_pc' = "commit" /\ db_tx' = <<item>>
       ELSE /\ inbox_pc' = "add_seen"
            /\ UNCHANGED <<db_tx, last_request>>
    /\ UNCHANGED <<handlers, signals, item, delivered, seen_items, marked,
                   subscription, db_open, inbox_frame>>

\* self.db.commit(): the statement of the open transaction, if there is
\* one, takes effect in the table
CommitInbox ==
    /\ subscription' = IF db_tx = None THEN subscription
                       ELSE process_message(subscription, db_tx[1]).table
    /\ db_tx' = None

\* process_message: the commit after the execute
CommitItem ==
    /\ inbox_pc = "commit"
    /\ CommitInbox
    /\ inbox_pc' = "add_seen"
    /\ UNCHANGED <<handlers, signals, item, delivered, seen_items, marked,
                   last_request, db_open, inbox_frame>>

\* _add_seen: the append and the test of the length
AddSeen ==
    /\ inbox_pc = "add_seen"
    /\ seen_items' = Append(seen_items, item.n)
    /\ IF Len(seen_items') >= SeenLimit
       THEN inbox_pc' = "mark_read" /\ UNCHANGED item
       ELSE inbox_pc' = "rest" /\ item' = NoItem
    /\ UNCHANGED <<handlers, signals, delivered, marked, subscription,
                   last_request, db_tx, db_open, inbox_frame>>

\* _flush_seen, called by _add_seen or by _exit_handler: the mark_read
FlushMarkRead ==
    /\ inbox_pc = "mark_read"
    /\ marked' = mark_read(marked, seen_items)
    /\ inbox_pc' = "clear"
    /\ UNCHANGED <<handlers, signals, item, delivered, seen_items,
                   subscription, last_request, db_tx, db_open, inbox_frame>>

\* _flush_seen: the buffer is emptied.  Called by _add_seen it returns to
\* the loop; called by _exit_handler it returns to the handler, which goes
\* on to the handler of the base class
FlushClear ==
    /\ inbox_pc = "clear"
    /\ seen_items' = <<>>
    /\ IF signals > 0
       THEN inbox_pc' = "super_exit" /\ UNCHANGED item
       ELSE inbox_pc' = "rest" /\ item' = NoItem
    /\ UNCHANGED <<handlers, signals, delivered, marked, subscription,
                   last_request, db_tx, db_open, inbox_frame>>

\* a signal a handler is installed for, wherever the process is, also
\* between the execute and the commit of process_message and inside a
\* handler that has not yet exited: _exit_handler is entered and calls
\* _flush_seen.  The code it interrupts is not resumed, since the handler
\* ends in exit(0) or in an exception
InboxExitHandler ==
    /\ inbox_pc \in InboxRunning
    /\ \E s \in {"SIGINT", "SIGTERM"} : s \in handlers
    /\ signals < MaxSignals
    /\ signals' = signals + 1
    /\ inbox_pc' = "mark_read"
    /\ UNCHANGED <<handlers, item, delivered, seen_items, marked,
                   subscription, last_request, db_tx, db_open, inbox_frame>>

\* APIProcess._exit_handler: self.db.commit(), which commits what
\* process_message had executed when the signal came, and which raises
\* InterfaceError on a connection an interrupted handler has closed
InboxSuperExit ==
    /\ inbox_pc = "super_exit"
    /\ IF db_open
       THEN /\ CommitInbox
            /\ inbox_pc' = "close"
       ELSE /\ inbox_pc' = "crashed"
            /\ UNCHANGED <<subscription, db_tx>>
    /\ UNCHANGED <<handlers, signals, item, delivered, seen_items, marked,
                   last_request, db_open, inbox_frame>>

\* APIProcess._exit_handler: self.db.close()
InboxClose ==
    /\ inbox_pc = "close"
    /\ db_open' = FALSE
    /\ inbox_pc' = "exit"
    /\ UNCHANGED <<handlers, signals, item, delivered, seen_items, marked,
                   subscription, last_request, db_tx, inbox_frame>>

\* APIProcess._exit_handler: exit(0)
InboxExit ==
    /\ inbox_pc = "exit"
    /\ inbox_pc' = "exited"
    /\ UNCHANGED <<handlers, signals, item, delivered, seen_items, marked,
                   subscription, last_request, db_tx, db_open, inbox_frame>>

InboxNext ==
    \/ InboxRun
    \/ SetupInterruptHandlers
    \/ NextItem
    \/ ProcessItem
    \/ CommitItem
    \/ AddSeen
    \/ FlushMarkRead
    \/ FlushClear
    \/ InboxExitHandler
    \/ InboxSuperExit
    \/ InboxClose
    \/ InboxExit

InboxSpec == InboxInit /\ [][InboxNext]_vars

(***************************************************************************)
(* Properties.                                                             *)
(***************************************************************************)
\* the cursor row of the stream
Stored == kv_store[DbKey(process)]

\* the place of an id in the source's publish order (0: not an entry)
EntryIndex(id) == Position(process, id, MaxEntries)

\* the restarted run has resolved its cursor and its first streaming request
\* is in flight
FirstFetch == pc = "fetch" /\ emitted = <<>>

\* the run was started with neither --after nor --reset-after
PlainStart == after_arg = None /\ ~reset_arg

\* C1: entries reach the consumer oldest-first: the entries handed over from
\* the page in hand are that page's document read backwards, a page is
\* handed over completely before the next one is requested, and over the
\* whole run every entry is older than the ones handed over after it.
C1_OldestFirst ==
    /\ idx <= Len(emitted)
    /\ Len(result) = Len(doc)
    /\ \A k \in 1..idx :
          emitted[Len(emitted) - idx + k] = doc[Len(doc) + 1 - k].id
    /\ (pc = "fetch" => idx = Len(doc))
    /\ \A place \in {[k \in 1..Len(emitted) |-> EntryIndex(emitted[k])]} :
          \A i, j \in 1..Len(emitted) : i < j => place[i] < place[j]

\* a page of several entries has been handed over completely, after an
\* earlier page
C1_Witness ==
    /\ Len(doc) >= 2
    /\ idx = Len(doc)
    /\ Len(emitted) > idx
    /\ pc = "fetch"

\* C2 as claimed: once N >= 1 entries have been emitted by a running walker,
\* the cursor row of the stream holds the id of the Nth.
C2_PersistedPerItem ==
    (pc \in Running /\ Len(emitted) >= 1) => Stored = emitted[Len(emitted)]

\* C3 as claimed: a walker started with no cursor row and without options
\* is killed after the callbacks of 3 of the 5 entries of a page have
\* returned; when the restarted walker (no options) has its first request
\* in flight, what the source answers to it begins with entries 4 and 5 of
\* that page and holds none of entries 1 to 3.
C3_Scenario ==
    /\ prev.end = "kill"
    /\ prev.plain
    /\ prev.stored = None
    /\ Stored = None
    /\ Len(prev.result) = 5
    /\ prev.pagedone = 3
    /\ PlainStart
    /\ FirstFetch

C3_RedeliveredAfterKill ==
    C3_Scenario =>
        LET page == Reverse(FeedPage(process, query, published))
        IN  /\ Len(page) >= 2
            /\ page[1].id = prev.result[4].id
            /\ page[2].id = prev.result[5].id
            /\ \A k \in 1..Len(page) : \A m \in 1..3 :
                  page[k].id # prev.result[m].id

\* C4 as claimed: a feed or comments process that is started gets past the
\* start of its run, so that SIGINT/SIGTERM stops it through its handler;
\* and after a run that such a signal ended with a cursor in memory, a
\* start without options sends its first streaming request for the entries
\* before the cursor the previous run held at shutdown, and the first entry
\* then handed over is the one published right after it.
C4_ResumeAfterSignal ==
    /\ ~(pc = "crashed" /\ prev.end = "error" /\ PlainStart /\ query = NoQuery)
    /\ (prev.end = "signal" /\ prev.after # None /\ PlainStart) =>
          /\ FirstFetch => query.before = prev.after
          /\ (pc \in {"fetch", "consume", "returned"} /\ Len(emitted) >= 1) =>
                EntryIndex(emitted[1]) = EntryIndex(prev.after) + 1

\* C5 as claimed: after a clean shutdown the cursor row holds the id of the
\* last entry whose callback returned.
C5_CursorIsLastProcessed ==
    (pc = "exited" /\ ndone >= 1) => Stored = emitted[ndone]

\* C6 as claimed: a callback that raises on entry e leaves the cursor behind
\* e, and the next start without options asks for the entries before the
\* cursor the failed run had reached, so that e comes again.
C6_RetriedAfterFailure ==
    /\ (pc = "crashed" /\ prev.end = "raise") =>
          prev.after # emitted[Len(emitted)]
    /\ (prev.end = "raise" /\ PlainStart /\ FirstFetch) =>
          query.before = prev.after

\* once the commit of the base handler has run with a cursor in memory,
\* the cursor row holds that cursor and nothing is left uncommitted; the
\* connection is still open before the close and closed after it; the
\* same holds when a second signal ends the handler with InterfaceError
SavedAfterCommit ==
    /\ (pc \in {"close", "exit", "exited"} /\ after_full_id # None) =>
          /\ Stored = after_full_id
          /\ db_tx = None
    /\ pc = "close" => db_open
    /\ pc \in {"exit", "exited"} => ~db_open
    /\ pc = "exited" => prev.after = after_full_id
    /\ (pc = "crashed" /\ prev.end = "signal" /\ prev.after # None) =>
          Stored = prev.after

\* the handler takes the cursor as it is when the signal is handled and
\* does not change it; the connection is closed by the handler only with
\* the cursor committed, and the process exits only with the connection
\* closed
SavedInOrder ==
    /\ (pc' \in InBaseHandler \/ pc \in InBaseHandler) =>
          (after_full_id' = after_full_id \/ pc' = "start")
    /\ (pc \in Running /\ pc' = "super_exit" /\ after_full_id # None) =>
          \/ kv_store'[DbKey(process)] = after_full_id
          \/ db_tx' = Upsert(DbKey(process), after_full_id)
    /\ (db_open /\ ~db_open' /\ pc' = "exit" /\ after_full_id # None) =>
          Stored = after_full_id
    /\ pc' = "exited" => (pc = "exit" /\ ~db_open)

\* C7: on SIGINT or SIGTERM with a cursor in memory the exit handler upserts
\* the cursor under the stream's key and it is committed before the
\* connection is closed and before the process exits; what is stored is the
\* cursor held when the signal is handled.
C7_SavedBeforeExit ==
    []SavedAfterCommit /\ [][SavedInOrder]_vars

\* a handler entered with a cursor in memory has run to its exit and has
\* changed the cursor row
C7_Witness ==
    /\ pc = "exited"
    /\ prev.end = "signal"
    /\ after_full_id # None
    /\ start_stored # None
    /\ Stored # start_stored

\* the cursor row after the step
StoredNext == kv_store'[DbKey(process)]

\* C8: within a run, every change of the cursor after its resolution sets it
\* to an entry handed over later than the entry it named before, later in
\* the source's order too; and a run started without options never replaces
\* the cursor row by an earlier entry.
C8_NoRewind ==
    [][/\ (pc \in {"fetch", "consume", "returned"}
            /\ after_full_id' # after_full_id) =>
              /\ \E j \in 1..Len(emitted) :
                    /\ emitted[j] = after_full_id'
                    /\ \A i \in 1..Len(emitted) :
                          emitted[i] = after_full_id => i < j
              /\ EntryIndex(after_full_id) # 0 =>
                    EntryIndex(after_full_id') > EntryIndex(after_full_id)
       /\ (StoredNext # Stored /\ Stored # None /\ PlainStart) =>
              EntryIndex(StoredNext) > EntryIndex(Stored)]_vars

\* a run without options has moved the cursor over several entries and its
\* clean shutdown has replaced the cursor row
C8_Witness ==
    /\ pc = "exited"
    /\ PlainStart
    /\ ndone >= 2
    /\ start_stored # None
    /\ Stored # start_stored

\* C9: with a cursor row present and --after given without --reset-after,
\* the first streaming request asks for the entries before the id that
\* --after names (every accepted input here names entry 2 of the stream).
C9_OverrideWins ==
    (start_stored # None /\ after_arg # None /\ ~reset_arg /\ FirstFetch) =>
        /\ query.before = SourceId(process, 2)
        /\ after_full_id = SourceId(process, 2)

\* the override is used although the row holds another cursor
C9_Witness ==
    /\ start_stored # None
    /\ start_stored # SourceId(process, 2)
    /\ after_arg = Base36(2)
    /\ ~reset_arg
    /\ FirstFetch

\* C10: with --reset-after and no --after, the walker's first request is for
\* the single newest entry (limit=1, no before), whatever the cursor row
\* holds, and the first streaming request asks for the entries before the
\* entry that request returned, the newest the source had.
C10_ResetBaseline ==
    [][(reset_arg /\ after_arg = None) =>
          /\ (pc = "start" /\ pc' \in Running \ {"start"}) =>
                /\ pc' = "baseline_fetch"
                /\ query' = [before |-> None, limit |-> 1]
          /\ (pc = "baseline_fetch" /\ pc' = "fetch") =>
                /\ after_full_id' = SourceId(process, published')
                /\ query'.before = after_full_id'
                /\ emitted' = <<>>]_vars

\* a reset run has taken a baseline that differs from the cursor row
C10_Witness ==
    /\ reset_arg
    /\ after_arg = None
    /\ start_stored # None
    /\ FirstFetch
    /\ query.before # start_stored
    /\ published >= 2

\* C11 as claimed: when iter_entries is called with both an explicit after
\* identifier and reset set, the cursor the first streaming request starts
\* from is the one the explicit identifier names (entry 2 of the stream
\* here), and no baseline is fetched.
C11_ExplicitBeatsReset ==
    /\ (after_arg # None /\ reset_arg) => pc # "baseline_fetch"
    /\ (after_arg # None /\ reset_arg /\ FirstFetch) =>
          /\ after_full_id = SourceId(process, 2)
          /\ query.before = SourceId(process, 2)

\* C12 as claimed: in XMLProcess._query_feed the delay is 15 at the start of
\* every call, and after k consecutive responses that are empty, malformed
\* or an error page the loop is still running (or was stopped by a signal)
\* with the delay min(15 * 2^k, 120) in force for its next request.
C12_BackoffSchedule ==
    process = "XMLProcess" =>
        /\ pc \in {"loop", "sleep", "response"} =>
              delay = Min(BaseDelay * 2^fails, MaxDelay)
        /\ fails >= 1 =>
              \/ pc \in PollerRunning \cup {"exited"}
              \/ pc = "crashed" /\ sig # None

\* C13 as claimed: while a request of the walker is out, no answer of the
\* source ends the process with an exception, and a page is handed to the
\* walker only when it holds at least one entry.
C13_NeverRaises ==
    [][(pc \in {"baseline_fetch", "fetch"}) =>
          /\ (pc' = "crashed" => prev'.end = "kill")
          /\ (doc' # doc => Len(doc') >= 1)]_vars

\* C14: a request that is not the first of the process is issued no earlier
\* than _last_timestamp + delay; when the loop sleeps it sleeps exactly the
\* time left until that instant and the sleep does not end before it; when
\* that instant has passed, or no request was made before, the request is
\* issued without a sleep.
C14_Pacing ==
    [][/\ (pc # "response" /\ pc' = "response" /\ last_timestamp # None) =>
              now >= last_timestamp[1] + delay
       /\ (pc = "loop" /\ pc' = "sleep") =>
              /\ last_timestamp # None
              /\ wait' = last_timestamp[1] + delay - now
              /\ wait' > 0
              /\ wake' = last_timestamp[1] + delay
       /\ (pc = "loop" /\ pc' # "loop" /\ sig = None
            /\ (last_timestamp = None \/ now >= last_timestamp[1] + delay)) =>
              pc' = "response"
       /\ (pc = "sleep" /\ pc' = "response") => now >= wake]_vars

\* the loop sleeps for a part of the delay only: time has passed since the
\* last answer
C14_Witness ==
    /\ pc = "sleep"
    /\ wait > 0
    /\ wait < delay

\* C15: a signal that arrives while the loop sleeps ends the sleep at once:
\* the process goes nowhere but to its exit (with the handlers installed;
\* to its death without them), no time passes before the handler has run,
\* and once it has run the cursor in memory (if any) is in the cursor row
\* and the connection is closed.  No request is issued, since the loop
\* never reaches "response".
C15_SignalEndsWait ==
    (sig # None /\ sig[1].pc = "sleep") =>
        /\ pc \in {"sleep"} \cup (IF handlers # {} THEN {"exited"} ELSE {"crashed"})
        /\ now = sig[1].at
        /\ pc = "exited" =>
              /\ ~db_open
              /\ db_tx = None
              /\ after_full_id # None =>
                    kv_store[DbKey(process)] = after_full_id

\* a signal has ended a backoff sleep before it was due to end, and the
\* cursor has been saved
C15_Witness ==
    /\ pc = "exited"
    /\ handlers # {}
    /\ sig # None
    /\ sig[1].pc = "sleep"
    /\ now < wake
    /\ fails >= 1
    /\ after_full_id # None
    /\ kv_store[DbKey(process)] = after_full_id

\* C16 as claimed: of two walkers for distinct (subreddit, path) pairs, each
\* resumes from the row it has written itself: the row a running walker
\* found at its start holds the cursor that walker saved at its last
\* shutdown (no row when it never saved one), whatever the other walker did.
C16_OwnCursorRow ==
    \A w \in DOMAIN walkers :
        walkers[w].pc \in WalkerRunning => walkers[w].found = walkers[w].saved

\* exactly six base36 characters
SixBase36(s) == Len(s) = 6 /\ base36_pattern(s)

\* C17 as claimed, for the inputs whose shape it names: <prefix>_ and six
\* base36 characters with the prefix of the stream's kind is used unchanged;
\* six base36 characters get the prefix of the stream's kind; a string that
\* is neither an id nor a full id of any length goes to the URL extractor
\* and what it extracts gets the prefix (nothing is resolved when the
\* extractor rejects it).  Ids of other lengths, which the pattern
\* [0-9a-z]+ accepts as well, are left out of the statement.
C17_Resolution ==
    codec_out.op = "resolve" =>
        LET k == Kind(codec_in.process)
            s == codec_in.s
        IN  /\ (FullIdMatch(k, s) /\ Len(s) = Len(k) + 7) =>
                  (codec_out.outcome = "cursor" /\ codec_out.id = s)
            /\ SixBase36(s) =>
                  /\ codec_out.outcome = "cursor"
                  /\ codec_out.id = k \o <<"_">> \o s
            /\ (~FullIdMatch(k, s) /\ ~base36_pattern(s)) =>
                  IF id_from_url(s) = None THEN codec_out.outcome = "raise"
                  ELSE /\ codec_out.outcome = "cursor"
                       /\ codec_out.id = k \o <<"_">> \o id_from_url(s)

\* the explicit identifier is of no accepted shape and the URL extractor
\* rejects it
Rejected(kind, after) ==
    /\ after # None
    /\ ~FullIdMatch(kind, after)
    /\ ~base36_pattern(after)
    /\ id_from_url(after) = None

\* C18: a run started with an identifier of no accepted shape that the URL
\* extractor rejects never gets past its start: it ends there (with the
\* error of the resolution, unless a signal or a kill ends it first), no
\* request is made, no entry handed over, no cursor taken, and the cursor
\* row is as the run found it.
C18_InvalidIdFatal ==
    (Rejected(Kind(process), after_arg) /\ ~reset_arg) =>
        /\ pc \in {"start", "crashed", "exited"} \cup InBaseHandler
        /\ pc = "crashed" => prev.end \in {"error", "kill", "signal"}
        /\ query = NoQuery
        /\ doc = <<>>
        /\ emitted = <<>>
        /\ after_full_id = None
        /\ Stored = start_stored

\* such a run has failed while the stream has a cursor row
C18_Witness ==
    /\ pc = "crashed"
    /\ prev.end = "error"
    /\ after_arg = <<"_">>
    /\ ~reset_arg
    /\ start_stored # None
    /\ Stored = start_stored

\* C19: for every kind and every short id of base36 characters, the short
\* id of the full id is the short id again, and the full id is the kind's
\* prefix, an underscore and the short id.
C19_RoundTrip ==
    (codec_out.op = "round_trip" /\ base36_pattern(codec_in.s)) =>
        /\ codec_out.short = codec_in.s
        /\ codec_out.full = kinds(codec_in.kind) \o <<"_">> \o codec_in.s

\* the round trip of a six-character id of a kind other than the walkers'
C19_Witness ==
    /\ codec_out.op = "round_trip"
    /\ codec_in.s = SixId
    /\ codec_in.kind = "message"
    /\ codec_out.short = SixId

\* the author of an entry, without the "/u/" the feed puts before it
AuthorName(entry_dict) ==
    SubSeq(entry_dict.author.name, 4, Len(entry_dict.author.name))

Blacklisted(entry_dict) ==
    Lower(AuthorName(entry_dict)) \in Blacklist(blacklist_cfg)

CountOf(key) == IF key \in DOMAIN comment THEN comment[key] ELSE 0

\* C20 as claimed: of the entries the loop has been entered for, those whose
\* author is in the blacklist (compared without regard to case) have added
\* nothing to a count, and every other one has added one to the count of
\* its submission, author and day.
C20_BlacklistSkipped ==
    \A key \in {CommentKey(feed[k]) : k \in 1..handled} \cup DOMAIN comment :
        CountOf(key) =
            Cardinality({k \in 1..handled :
                            /\ CommentKey(feed[k]) = key
                            /\ ~Blacklisted(feed[k])})

\* the sum of the counts of the rows of table comment with their key in S
RECURSIVE SumCounts(_)
SumCounts(S) ==
    IF S = {} THEN 0
    ELSE LET key == CHOOSE k \in S : TRUE
         IN  comment[key] + SumCounts(S \ {key})

\* the stored count of a submission and a day, over its commenters
StoredCount(sub, date) ==
    SumCounts({key \in DOMAIN comment : key[1] = sub /\ key[3] = date})

\* the distinct entries delivered so far that count for a submission and a
\* day: those of an author outside the blacklist
Qualifying(sub, date) ==
    {feed[k].id : k \in {j \in 1..handled :
                            /\ ~Blacklisted(feed[j])
                            /\ id_from_url(feed[j].link) = sub
                            /\ get_comment_date(feed[j].updated) = date}}

\* C21 as claimed: the stored count of a submission and a bucket date is
\* the number of distinct qualifying entries of that submission and date
\* that the stream has delivered to the loop of run.
C21_CountedOnce ==
    \A k \in 1..handled :
        LET sub == id_from_url(feed[k].link)
            date == get_comment_date(feed[k].updated)
        IN  StoredCount(sub, date) = Cardinality(Qualifying(sub, date))

\* the cutoff as a time of day in UTC, in seconds
CutoffOfDay(cutoff) ==
    (SecondsOfDay(cutoff) - 60 * cutoff.utcoffset[1]) % SecondsPerDay

\* C22 as claimed: the date returned is the entry's calendar day when its
\* time of day is at or after the cutoff and the day before when it is
\* before the cutoff, both taken in UTC as the entry's `updated` is; so
\* cutoff 00:00+00:00 and 23:59:59+00:00 give the day, and cutoff
\* 06:00+00:00 and 05:00:00+00:00 the day before.
C22_CutoffBucket ==
    bucket_out.state = "returned" =>
        bucket_out.date =
            IF SecondsOfDay(bucket_in.updated.time) >= CutoffOfDay(bucket_in.cutoff)
            THEN bucket_in.updated.day
            ELSE bucket_in.updated.day - 1

\* the pair a command message is about
SentPair == <<item.sent[2], item.author>>

\* the pair of the statement executed and not yet committed
PendingPair == <<db_tx[1].sent[2], db_tx[1].author>>

\* whenever no statement is waiting for its commit, and wherever the
\* process has ended, the table is what the last commands processed say
SubscribedIffLast ==
    /\ subscription \subseteq Pairs
    /\ (db_tx = None \/ inbox_pc \in {"exited", "crashed"}) =>
          \A p \in Pairs : p \in subscription <=> last_request[p] = "Subscribe"

\* the statement of a Subscribe for a pair in the table does not fail; the
\* commit of it, and of an Unsubscribe for a pair not in the table, by
\* process_message or by the handler, leaves the table as it is
RepeatedIsNoOp ==
    /\ (/\ inbox_pc = "process" /\ item.sent # <<>>
        /\ item.sent[1] = Subscribe /\ SentPair \in subscription) =>
          inbox_pc' \in {"commit", "mark_read"}
    /\ db_tx # None =>
          /\ (db_tx[1].sent[1] = Subscribe /\ PendingPair \in subscription) =>
                subscription' = subscription
          /\ (db_tx[1].sent[1] = Unsubscribe /\ PendingPair \notin subscription) =>
                subscription' = subscription

\* C23 as claimed: a pair (submission id, user name) is in table
\* subscription exactly when the last message processed from that user with
\* the subject 'Subscribe <id>' or 'Unsubscribe <id>' was a Subscribe; a
\* Subscribe for a pair already there adds no row and does not fail, an
\* Unsubscribe for a pair not there changes nothing.
C23_SubscribedIffLastSubscribe ==
    []SubscribedIffLast /\ [][RepeatedIsNoOp]_vars

\* the ids of the page in hand
DocIds == {doc[k].id : k \in 1..Len(doc)}

EmittedIds == {emitted[k] : k \in 1..Len(emitted)}

\* the page in hand has been decoded to its end and reversed
FullyDecoded ==
    /\ Len(result) = Len(doc)
    /\ \A k \in 1..Len(doc) : doc[k].ok /\ result[k].id = doc[Len(doc) - k + 1].id

\* with a request out or its page half decoded, the cursor is the one the
\* request was made with and nothing of the page has been emitted; a run
\* that ended there left the cursor row as it found it
CursorHeld ==
    /\ pc \in {"baseline_fetch", "fetch", "decode", "crashed"} =>
          after_full_id = query.before
    /\ pc = "decode" => DocIds \cap EmittedIds = {}
    /\ pc = "crashed" => kv_store[DbKey(process)] = start_stored

\* a fetch or a decoding step that does not complete the page changes
\* neither the cursor, nor the cursor row, nor what has been emitted; the
\* cursor moves and an entry is emitted only from a page decoded to its end
AfterFullPage ==
    /\ (/\ pc \in {"baseline_fetch", "fetch", "decode"}
        /\ pc' \in {pc, "decode", "crashed"}) =>
          /\ after_full_id' = after_full_id
          /\ kv_store' = kv_store
          /\ emitted' = emitted
    /\ after_full_id' # after_full_id =>
          \/ pc = "returned" /\ FullyDecoded /\ after_full_id' = result[idx].id
          \/ /\ pc = "decode" /\ idx = Len(doc) /\ query.before = None
             /\ \A k \in 1..Len(doc) : doc[k].ok
             /\ after_full_id' =
                   doc[IF process = "XMLProcess" THEN Len(doc) ELSE 1].id
    /\ emitted' # emitted =>
          \/ pc = "returned" /\ FullyDecoded
          \/ pc = "decode" /\ idx = Len(doc) /\ FullyDecoded'

\* C24: afterFullId is changed only after a page has been completely
\* fetched, decoded and reversed; when the fetch or the decoding of a page
\* fails or hangs partway, afterFullId and the cursor row are what they
\* were before the request and no entry of that page has been emitted.
C24_CursorAfterFullPage ==
    []CursorHeld /\ [][AfterFullPage]_vars

\* a second page, of three entries, failed at its second entry after the
\* first page had been emitted
C24_Witness ==
    /\ pc = "crashed"
    /\ emitted # <<>>
    /\ Len(doc) = 3
    /\ idx = 1
    /\ Len(result) = 1
    /\ ~doc[2].ok
    /\ after_full_id = emitted[Len(emitted)]
    /\ DocIds \cap EmittedIds = {}

\* C25: when the signal is handled while the cursor is still unset, the
\* exit handler writes nothing to the cursor row of the stream: after the
\* shutdown the row, present or absent, is what it was when the process
\* started.
C25_UnsetCursorWritesNothing ==
    (pc \in InBaseHandler \cup {"exited"} /\ after_full_id = None) =>
        /\ kv_store[DbKey(process)] = start_stored
        /\ db_tx = None

\* a run started with --reset-after on a stream that has a cursor row was
\* shut down while its baseline request was backing off
C25_Witness ==
    /\ pc = "exited"
    /\ after_full_id = None
    /\ process = "XMLProcess"
    /\ reset_arg
    /\ delay > BaseDelay
    /\ start_stored # None
    /\ kv_store[DbKey(process)] = start_stored

\* every list _query_feed hands to the walker has an entry; the baseline is
\* the newest entry the source has; the request that follows a returned
\* page is made with a cursor at least one entry further
NonEmptyPages ==
    process = "XMLProcess" =>
        /\ (pc = "fetch" /\ (doc' # doc \/ result' # result)) =>
              /\ Len(result') >= 1
              /\ pc' = "consume"
        /\ (pc = "baseline_fetch" /\ pc' = "fetch") =>
              after_full_id' = SourceId(process, published')
        /\ (pc = "returned" /\ pc' = "fetch") =>
              /\ Len(result) >= 1
              /\ EntryIndex(after_full_id') >= EntryIndex(query.before) + 1
              /\ query'.before = after_full_id'

\* C26: every page XMLProcess._query_feed returns has at least one entry:
\* get_last_entry always obtains the newest entry and never reads the first
\* element of an empty page, and every streaming fetch that returns moves
\* the cursor on by at least one entry.
C26_ReturnedPagesNonEmpty ==
    [](process = "XMLProcess" => prev.end # "index") /\ [][NonEmptyPages]_vars

\* a run that took its baseline from the feed has received and consumed a
\* page of two entries and asks for the next with the newer of them
C26_Witness ==
    /\ process = "XMLProcess"
    /\ pc = "fetch"
    /\ PlainStart
    /\ start_stored = None
    /\ Len(result) = 2
    /\ idx = 2
    /\ after_full_id = result[2].id
    /\ query.before = after_full_id
    /\ EntryIndex(after_full_id) = EntryIndex(emitted[1]) + 1

\* the items in the buffer
SeenSet == {seen_items[k] : k \in 1..Len(seen_items)}

\* the number of items whose turn of the loop of run is over: all those
\* delivered, less the one the loop still holds
TurnsDone == IF item = NoItem THEN delivered ELSE delivered - 1

\* C27 as claimed: after every _add_seen call the buffer holds fewer than
\* 25 items; a flush marks the buffered items read, those and no others,
\* and empties the buffer, so that between turns every item is either in
\* the buffer and unmarked or marked once; and a clean shutdown flushes the
\* buffer before it exits, so that every item whose turn was over at the
\* shutdown has been marked read exactly once.
C27_SeenBuffer ==
    /\ inbox_pc = "rest" =>
          /\ Len(seen_items) < SeenLimit
          /\ \A n \in 1..delivered :
                marked[n] = IF n \in SeenSet THEN 0 ELSE 1
    /\ inbox_pc = "exited" =>
          /\ seen_items = <<>>
          /\ \A n \in 1..TurnsDone : marked[n] = 1

====
